---- MODULE Spec2Model ----
(***************************************************************************)
(* Evaluation and continuous-improvement pipeline of agent-eval:           *)
(* evaluation orchestrator, greedy clustering engine, regression tester    *)
(* and the analysis orchestrator with its proposal store.                  *)
(*                                                                         *)
(* Floating point numbers are modelled as exact rationals.  A vector is a  *)
(* record [num |-> <<n1, n2>>, den |-> d] standing for <<n1/d, n2/d>>.     *)
(***************************************************************************)
EXTENDS Integers, Sequences, FiniteSets, TLC

\* ------------------------------------------------------------------------
\* Bounds of the model
\* ------------------------------------------------------------------------
MaxItems == 3
MaxCases == 2
MaxProposals == 2
MaxPrompts == 1
MaxOps == 5

\* longest id list handed to a batch evaluation
MaxBatch == 2

\* longest occurrence list clustered twice
MaxRerunItems == 2

\* ------------------------------------------------------------------------
\* Generic helpers
\* ------------------------------------------------------------------------
SeqsUpTo(S, n) == UNION {[1..k -> S] : k \in 0..n}

RECURSIVE SumSeq(_)
SumSeq(s) == IF s = <<>> THEN 0 ELSE Head(s) + SumSeq(Tail(s))

Min(S) == CHOOSE x \in S : \A y \in S : x <= y

\* ------------------------------------------------------------------------
\* Clustering engine (src/analysis/clustering.py)
\* ------------------------------------------------------------------------
\* ClusteringEngine.__init__: similarity_threshold = 0.70, in hundredths
similarity_threshold == 70

\* raw embeddings an occurrence may carry (cached or returned by the
\* embedding capability); <<0,0>> is the stand-in of generate_embedding
EmbeddingPool == { <<0, 0>>, <<1, 0>>, <<1, 1>>, <<1, 2>>, <<1, -1>> }

Vec(v) == [num |-> v, den |-> 1]

\* a flattened occurrence as produced by flatten_issue, embedding attached
ItemPool == [conversation_id : {"c1", "c2"},
             issue_type : {"missing_param"},
             description : {"d1"},
             embedding : {Vec(v) : v \in EmbeddingPool}]

IsZero(v) == \A i \in DOMAIN v.num : v.num[i] = 0

Dot(a, b) == SumSeq([i \in DOMAIN a.num |-> a.num[i] * b.num[i]])

\* cosine_similarity without the zero-vector guard
cosine_similarity_noguard(v1, v2) ==
    [dot |-> Dot(v1, v2), norm2 |-> Dot(v1, v1) * Dot(v2, v2)]

\* cosine_similarity: the value is dot / sqrt(norm2); the denominators of
\* the two vectors cancel between np.dot and the product of the norms.
\* A zero vector on either side gives 0.0.
cosine_similarity(v1, v2) ==
    IF IsZero(v1) \/ IsZero(v2)
    THEN [dot |-> 0, norm2 |-> 1]
    ELSE [dot |-> Dot(v1, v2), norm2 |-> Dot(v1, v1) * Dot(v2, v2)]

\* sim >= thr, thr in hundredths and positive
SimAtLeast(sim, thr) ==
    /\ sim.dot >= 0
    /\ sim.dot * sim.dot * 100 * 100 >= thr * thr * sim.norm2

\* sim <= thr, thr in hundredths and positive
SimAtMost(sim, thr) ==
    \/ sim.dot < 0
    \/ sim.dot * sim.dot * 100 * 100 <= thr * thr * sim.norm2

\* s1 > s2 for two non-negative similarities
SimGreater(s1, s2) ==
    s1.dot * s1.dot * s2.norm2 > s2.dot * s2.dot * s1.norm2

\* IssueCluster as created in cluster_issues; members is the list of input
\* positions that were assigned to the cluster.
NewCluster(item, idx) ==
    [conversation_ids |-> <<item.conversation_id>>,
     mean_embedding |-> item.embedding,
     issue_types |-> {item.issue_type},
     descriptions |-> <<item.description>>,
     members |-> <<idx>>,
     label |-> "",
     explanation |-> "",
     severity |-> 0,
     significance_score |-> 0]

\* what assignment gives a cluster: its conversation ids, its metadata and
\* the input positions it holds
Membership(cluster) ==
    <<cluster.conversation_ids, cluster.descriptions, cluster.issue_types,
      cluster.mean_embedding, cluster.members>>

\* _add_to_cluster taking n before the append
_add_to_cluster_stale_n(cluster, item, idx) ==
    LET n == Len(cluster.conversation_ids)
        prev == cluster.mean_embedding
        curr == item.embedding
    IN [cluster EXCEPT
          !.conversation_ids = Append(@, item.conversation_id),
          !.descriptions = Append(@, item.description),
          !.issue_types = @ \cup {item.issue_type},
          !.members = Append(@, idx),
          !.mean_embedding =
              [num |-> [i \in DOMAIN prev.num |->
                          prev.num[i] * (n - 1) * curr.den
                          + curr.num[i] * prev.den],
               den |-> prev.den * curr.den * n]]

\* _add_to_cluster: running average ((prev_mean * (n - 1)) + curr_vec) / n
\* with n the member count after the append
_add_to_cluster(cluster, item, idx) ==
    LET ids == Append(cluster.conversation_ids, item.conversation_id)
        n == Len(ids)
        prev == cluster.mean_embedding
        curr == item.embedding
    IN [cluster EXCEPT
          !.conversation_ids = ids,
          !.descriptions = Append(@, item.description),
          !.issue_types = @ \cup {item.issue_type},
          !.members = Append(@, idx),
          !.mean_embedding =
              [num |-> [i \in DOMAIN prev.num |->
                          prev.num[i] * (n - 1) * curr.den
                          + curr.num[i] * prev.den],
               den |-> prev.den * curr.den * n]]

\* clusters, in creation order, whose mean is similar enough to the item
Fitting(cs, item) ==
    {j \in 1..Len(cs) :
        SimAtLeast(cosine_similarity(item.embedding, cs[j].mean_embedding),
                   similarity_threshold)}

Max(S) == CHOOSE x \in S : \A y \in S : x >= y

\* the assignment loop without its break: the last fitting cluster wins
AssignItem_nobreak(cs, item, idx) ==
    IF Fitting(cs, item) # {}
    THEN LET j == Max(Fitting(cs, item))
         IN [cs EXCEPT ![j] = _add_to_cluster(cs[j], item, idx)]
    ELSE Append(cs, NewCluster(item, idx))

\* one iteration of the assignment loop of cluster_issues: the first
\* fitting cluster takes the item (break), else a new cluster is appended
AssignItem(cs, item, idx) ==
    IF Fitting(cs, item) # {}
    THEN LET j == Min(Fitting(cs, item))
         IN [cs EXCEPT ![j] = _add_to_cluster(cs[j], item, idx)]
    ELSE Append(cs, NewCluster(item, idx))

\* what the reasoning capability does for one enrichment call: it raises,
\* or it replies with a JSON object whose fields may be missing
EnrichReplies ==
    { [kind |-> "error", fields |-> {}, label |-> "",
       explanation |-> "timeout", severity |-> 0],
      [kind |-> "reply", fields |-> {"label", "explanation", "severity"},
       label |-> "Bad Tool Params",
       explanation |-> "tool parameter schema unclear", severity |-> 7],
      [kind |-> "reply", fields |-> {}, label |-> "", explanation |-> "",
       severity |-> 0] }

\* what _enrich_cluster meets when the client holds no api key
NoKeyReply ==
    [kind |-> "no_key", fields |-> {}, label |-> "", explanation |-> "",
     severity |-> 0]

\* an enrichment whose significance is taken from the default severity
_enrich_cluster_default_significance(cluster, reply) ==
    IF reply.kind = "no_key"
    THEN [cluster EXCEPT
            !.explanation = "Mock: Found a pattern in conversation tools.",
            !.severity = 5,
            !.significance_score = Len(cluster.conversation_ids) * 5,
            !.label = "Potential Tool Error"]
    ELSE IF reply.kind = "error"
    THEN [cluster EXCEPT !.label = "Analysis Failed",
                         !.explanation = reply.explanation]
    ELSE LET sev == IF "severity" \in reply.fields THEN reply.severity ELSE 5
         IN [cluster EXCEPT
               !.label = IF "label" \in reply.fields THEN reply.label
                         ELSE "Unknown Pattern",
               !.explanation = IF "explanation" \in reply.fields
                               THEN reply.explanation ELSE "",
               !.severity = sev,
               !.significance_score = Len(cluster.conversation_ids) * 5]

\* _enrich_cluster.  Without an api key: the mock explanation, severity 5.0,
\* significance and label.  With a client: label, explanation, severity
\* (default 5.0) and significance from the reply; an exception anywhere in
\* the try (the call, json.loads, float() of the severity) leaves severity
\* and significance as they were and sets the label and the explanation
_enrich_cluster(cluster, reply) ==
    IF reply.kind = "no_key"
    THEN [cluster EXCEPT
            !.explanation = "Mock: Found a pattern in conversation tools.",
            !.severity = 5,
            !.significance_score = Len(cluster.conversation_ids) * 5,
            !.label = "Potential Tool Error"]
    ELSE IF reply.kind = "error"
    THEN [cluster EXCEPT !.label = "Analysis Failed",
                         !.explanation = reply.explanation]
    ELSE LET sev == IF "severity" \in reply.fields THEN reply.severity ELSE 5
         IN [cluster EXCEPT
               !.label = IF "label" \in reply.fields THEN reply.label
                         ELSE "Unknown Pattern",
               !.explanation = IF "explanation" \in reply.fields
                               THEN reply.explanation ELSE "",
               !.severity = sev,
               !.significance_score = Len(cluster.conversation_ids) * sev]

RECURSIVE AssignAll(_, _, _)
AssignAll(cs, items, idx) ==
    IF idx > Len(items) THEN cs
    ELSE AssignAll(AssignItem(cs, items[idx], idx), items, idx + 1)

\* ------------------------------------------------------------------------
\* Evaluation orchestrator (src/evaluation/service.py, src/models.py)
\* Scores and confidences are in ten-thousandths: 10000 stands for 1.0.
\* A rational [num |-> n, den |-> d] stands for n/d ten-thousandths.
\* ------------------------------------------------------------------------
ConvIds == {"c1", "c2"}

\* EvaluationService.enabled_evaluators: the configured names, no name twice
ConfiguredEvaluators == <<"heuristic", "tool_call", "coherence">>

\* the names a registry may hold; "coherence" stands for a configured name
\* that was never registered
RegisteredPool == {"heuristic", "tool_call"}

Issue1 == [issue_type |-> "missing_param", severity |-> "high",
           description |-> "d1"]

\* what Evaluator._evaluate does on one conversation: it raises, or it
\* returns scores, issues and a confidence
EvalOutcomes ==
    { [kind |-> "raise", scores |-> <<>>, issues |-> <<>>, confidence |-> 0],
      [kind |-> "ok", scores |-> <<10000>>, issues |-> <<>>,
       confidence |-> 10000],
      [kind |-> "ok", scores |-> <<5000, 0>>, issues |-> <<Issue1>>,
       confidence |-> 8500] }

\* the evaluator behaviours drawn for the conversations of a regression
\* run: a clean report and one with sub-scores 0.5, 0.0 and an issue
RegressionOutcomes == {o \in EvalOutcomes : o.kind = "ok"}

NoResult == [status |-> "none"]

\* Evaluator.evaluate without its except clause: the error of _evaluate
\* reaches the caller
Evaluator_evaluate_propagates(name, outcome) ==
    [raised |-> outcome.kind = "raise",
     evaluator_name |-> name, scores |-> outcome.scores,
     issues |-> outcome.issues, confidence |-> outcome.confidence,
     metadata |-> {"latency_ms"}]

\* Evaluator.evaluate (template method): the result of _evaluate with its
\* latency, or the degraded result when _evaluate raised; raised tells
\* whether an exception leaves the method
Evaluator_evaluate(name, outcome) ==
    IF outcome.kind = "raise"
    THEN [raised |-> FALSE,
          evaluator_name |-> name, scores |-> <<>>, issues |-> <<>>,
          confidence |-> 0, metadata |-> {"error", "latency_ms"}]
    ELSE [raised |-> FALSE,
          evaluator_name |-> name, scores |-> outcome.scores,
          issues |-> outcome.issues, confidence |-> outcome.confidence,
          metadata |-> {"latency_ms"}]

\* EvaluationService._get_active_strategies: the configured names the
\* registry resolves, in configuration order
_get_active_strategies(reg, enabled) ==
    SelectSeq(enabled, LAMBDA n : n \in reg)

RECURSIVE ConcatAll(_)
ConcatAll(ss) == IF ss = <<>> THEN <<>> ELSE Head(ss) \o ConcatAll(Tail(ss))

Zero == [num |-> 0, den |-> 1]

\* compute_aggregate_score dividing by the number of evaluators
compute_aggregate_score_per_evaluator(evals, current) ==
    LET all_scores == ConcatAll([i \in 1..Len(evals) |-> evals[i].scores])
    IN IF evals = <<>> THEN current
       ELSE IF all_scores = <<>> THEN current
       ELSE [num |-> SumSeq(all_scores), den |-> Len(evals)]

\* EvaluationResult.compute_aggregate_score: sum(all_scores) /
\* len(all_scores); the field keeps its value when there is no score
compute_aggregate_score(evals, current) ==
    LET all_scores == ConcatAll([i \in 1..Len(evals) |-> evals[i].scores])
    IN IF evals = <<>> THEN current
       ELSE IF all_scores = <<>> THEN current
       ELSE [num |-> SumSeq(all_scores), den |-> Len(all_scores)]

\* EvaluationResult.aggregate_issues
aggregate_issues(evals) == ConcatAll([i \in 1..Len(evals) |-> evals[i].issues])

\* the evaluation loop of evaluate_conversation (an exception leaving
\* strategy.evaluate is replaced by the orchestrator's own degraded result)
\* and its post-processing; outcomes[i] is what the i-th strategy's
\* _evaluate does
RunStrategies(cid, strategies, outcomes) ==
    LET one(i) ==
            LET r == Evaluator_evaluate(strategies[i], outcomes[i])
            IN IF r.raised
               THEN [evaluator_name |-> strategies[i], scores |-> <<>>,
                     issues |-> <<>>, confidence |-> 0,
                     metadata |-> {"error"}]
               ELSE [evaluator_name |-> r.evaluator_name,
                     scores |-> r.scores, issues |-> r.issues,
                     confidence |-> r.confidence, metadata |-> r.metadata]
        evals == [i \in 1..Len(strategies) |-> one(i)]
    IN [conversation_id |-> cid,
        evaluations |-> evals,
        aggregate_score |-> compute_aggregate_score(evals, Zero),
        issues |-> aggregate_issues(evals),
        status |-> "completed"]

\* evaluate_conversation with no active strategy: completed, 0.0, returned
\* without being saved
EmptyResult(cid) ==
    [conversation_id |-> cid, evaluations |-> <<>>,
     aggregate_score |-> Zero, issues |-> <<>>, status |-> "completed"]

\* ------------------------------------------------------------------------
\* Regression tester (src/analysis/regression.py)
\* An optional value is a set with at most one element.
\* ------------------------------------------------------------------------
Rat(n) == [num |-> n, den |-> 1]

RatLess(a, b) == a.num * b.den < b.num * a.den

RECURSIVE RatSum(_)
RatSum(rs) ==
    IF rs = <<>> THEN Zero
    ELSE LET t == RatSum(Tail(rs))
         IN [num |-> Head(rs).num * t.den + t.num * Head(rs).den,
             den |-> Head(rs).den * t.den]

\* sum(vals) / len(vals) if vals else 0.0
MeanOrZero(vals) ==
    IF vals = <<>> THEN Zero
    ELSE [num |-> RatSum(vals).num, den |-> RatSum(vals).den * Len(vals)]

\* round(x, 3): x in ten-thousandths to the nearest thousandth, ties to even
Round3(x) ==
    LET unit == 10 * x.den
        q == x.num \div unit
        r == x.num - q * unit
    IN IF 2 * r > unit THEN q + 1
       ELSE IF 2 * r < unit THEN q
       ELSE IF q % 2 = 0 THEN q ELSE q + 1

\* a shadow conversation that carries the factor whatever the proposal
ShadowFactor_any_type(ptype) == {15}

\* _simulate_shadow_conversation: simulated_improvement_factor (0.15, in
\* hundredths) is set on the shadow's metadata for a tool proposal only;
\* the optional factor a shadow conversation carries
ShadowFactor(ptype) == IF ptype = "tool" THEN {15} ELSE {}

\* c.metadata.get("simulated_improvement_factor", 0.0)
FactorOrZero(f) == IF f = {} THEN 0 ELSE CHOOSE x \in f : TRUE

\* avg_shadow *= (1.0 + max(boosts)); avg_shadow = min(1.0, avg_shadow)
Boosted(avg, boosts) ==
    IF boosts = <<>> THEN avg
    ELSE LET m == Max({boosts[i] : i \in 1..Len(boosts)})
             b == [num |-> avg.num * (100 + m), den |-> avg.den * 100]
         IN IF RatLess(Rat(10000), b) THEN Rat(10000) ELSE b

\* is_improvement = avg_shadow >= avg_base
IsImprovement_or_equal(avg_base, avg_shadow) == ~RatLess(avg_shadow, avg_base)

\* is_improvement = avg_shadow > avg_base
IsImprovement(avg_base, avg_shadow) == RatLess(avg_base, avg_shadow)

\* _calculate_deltas: base_list holds optional aggregate scores (None when
\* the conversation has no evaluation), shadow_list aggregate scores,
\* factors the optional factor of each shadow conversation
_calculate_deltas(base_list, shadow_list, factors) ==
    LET present == SelectSeq(base_list, LAMBDA e : e # {})
        base_vals == [i \in 1..Len(present) |-> CHOOSE x \in present[i] : TRUE]
        avg_base == MeanOrZero(base_vals)
        boosts == [i \in 1..Len(factors) |-> FactorOrZero(factors[i])]
        avg_shadow == Boosted(MeanOrZero(shadow_list), boosts)
    IN << [metric_name |-> "aggregate_score",
           old_val |-> Round3(avg_base),
           new_val |-> Round3(avg_shadow),
           is_improvement |-> IsImprovement(avg_base, avg_shadow)] >>

\* overall_improvement read off the reported values
AnyImprovement_by_values(deltas) ==
    \E i \in 1..Len(deltas) : deltas[i].new_val > deltas[i].old_val

\* any(d.is_improvement for d in report.score_deltas)
AnyImprovement(deltas) == \E i \in 1..Len(deltas) : deltas[i].is_improvement

\* the RegressionReport of run_regression
SimulatedReport(ptype, base_list, shadow_list) ==
    LET deltas == _calculate_deltas(base_list, shadow_list,
                      [i \in 1..Len(shadow_list) |-> ShadowFactor(ptype)])
    IN [mode |-> "simulated",
        test_case_count |-> Len(base_list),
        score_deltas |-> deltas,
        overall_improvement |-> AnyImprovement(deltas)]

\* the RegressionReport of run_real_regression from the aggregate scores of
\* the baseline batch and of the updated batch (run_batch returns their mean)
RealReport(base_scores, updated_scores) ==
    LET base_avg == MeanOrZero(base_scores)
        updated_avg == MeanOrZero(updated_scores)
    IN [mode |-> "real",
        test_case_count |-> Len(base_scores),
        score_deltas |-> << [metric_name |-> "aggregate_score",
                             old_val |-> Round3(base_avg),
                             new_val |-> Round3(updated_avg),
                             is_improvement |-> RatLess(base_avg, updated_avg)] >>,
        overall_improvement |-> RatLess(base_avg, updated_avg)]

NoReport == [mode |-> "none"]

\* ------------------------------------------------------------------------
\* State
\* ------------------------------------------------------------------------
\* one run of cluster_issues
VARIABLES flattened_issues, clusters, pos, epos, cpc
\* registry and repository; conversations lists the stored ids by creation
\* time and eval_order the evaluated ids by the timestamp of their latest
\* evaluation, oldest first; result is what the last evaluate call returned
\* and last_outcomes what each strategy's _evaluate did during that call
VARIABLES registry, conversations, evaluations, eval_order, result,
          last_outcomes

\* one regression run: the aggregate scores on record for the test set (or
\* of the baseline batch), those of the shadow (or updated) evaluations, the
\* proposal's type and the report returned
VARIABLES base_evals, shadow_evals, proposal_type, report

\* the proposal store (a proposal's id is its position), the two active
\* artifact files (absent: the empty set), the number of demo conversations
\* generated so far, and the client operation that ran last, with what it
\* was given and whether it raised
VARIABLES proposals, active_prompt, active_tool, next_demo, last_op

\* the number of client operations run on the services so far
VARIABLES ops

\* the api key of the settings and environment, and the LLMClientFactory
\* the analysis components hold once constructed (none: the empty set)
VARIABLES api_key, factory

\* the Conversation object handed to an evaluator, and the strict_mode of
\* the ToolCallEvaluator
VARIABLES conversation, strict_mode

\* metadata maps by identity (heap: address -> keys set in the map) and the
\* Conversation objects created so far, each holding the address of its map
VARIABLES heap, conv_objects

clusterVars == <<flattened_issues, clusters, pos, epos, cpc>>
evalVars ==
    <<registry, conversations, evaluations, eval_order, result, last_outcomes>>

regVars == <<base_evals, shadow_evals, proposal_type, report>>

proposalVars == <<proposals, active_prompt, active_tool, next_demo>>

storeVars == <<proposalVars, last_op>>

svcVars == <<storeVars, ops>>

engineVars == <<api_key, factory>>

inputVars == <<conversation, strict_mode>>

heapVars == <<heap, conv_objects>>

auxVars == <<engineVars, inputVars, heapVars>>

vars == <<clusterVars, evalVars, regVars, svcVars, auxVars>>

NoOp == [op |-> "none"]

SvcIdle ==
    /\ proposals = <<>>
    /\ active_prompt = {}
    /\ active_tool = {}
    /\ next_demo = 1
    /\ last_op = NoOp
    /\ ops = 0

\* one more client operation, at most MaxOps in a behaviour
Tick ==
    /\ ops < MaxOps
    /\ ops' = ops + 1

RegIdle ==
    /\ base_evals = <<>>
    /\ shadow_evals = <<>>
    /\ proposal_type = "prompt"
    /\ report = NoReport

ClusterIdle ==
    /\ flattened_issues = <<>>
    /\ clusters = <<>>
    /\ pos = 1
    /\ epos = 1
    /\ cpc = "idle"

EvalIdle ==
    /\ registry = {}
    /\ conversations = <<>>
    /\ evaluations = <<>>
    /\ eval_order = <<>>
    /\ result = NoResult
    /\ last_outcomes = <<>>

\* an api key is configured and the factory was built from it
EngineReady ==
    /\ api_key = "sk-test"
    /\ factory = {[api_key |-> "sk-test"]}

InputIdle ==
    /\ conversation = <<>>
    /\ strict_mode = FALSE

HeapIdle ==
    /\ heap = <<>>
    /\ conv_objects = <<>>

AuxIdle == EngineReady /\ InputIdle /\ HeapIdle

\* ------------------------------------------------------------------------
\* cluster_issues run step by step over one occurrence list
\* ------------------------------------------------------------------------
ClusterInit ==
    /\ flattened_issues \in SeqsUpTo(ItemPool, MaxItems)
    /\ clusters = <<>>
    /\ pos = 1
    /\ epos = 1
    /\ cpc = "assign"
    /\ EvalIdle
    /\ RegIdle
    /\ SvcIdle
    /\ AuxIdle

JoinCluster ==
    /\ cpc = "assign"
    /\ pos <= Len(flattened_issues)
    /\ Fitting(clusters, flattened_issues[pos]) # {}
    /\ clusters' = AssignItem(clusters, flattened_issues[pos], pos)
    /\ pos' = pos + 1
    /\ UNCHANGED <<auxVars, flattened_issues, epos, cpc, evalVars, regVars, svcVars>>

OpenCluster ==
    /\ cpc = "assign"
    /\ pos <= Len(flattened_issues)
    /\ Fitting(clusters, flattened_issues[pos]) = {}
    /\ clusters' = AssignItem(clusters, flattened_issues[pos], pos)
    /\ pos' = pos + 1
    /\ UNCHANGED <<auxVars, flattened_issues, epos, cpc, evalVars, regVars, svcVars>>

\* the assignment loop is over: the enrichment loop starts at cluster 1
StartEnrich ==
    /\ cpc = "assign"
    /\ pos > Len(flattened_issues)
    /\ cpc' = "enrich"
    /\ epos' = 1
    /\ UNCHANGED <<auxVars, flattened_issues, clusters, pos, evalVars, regVars, svcVars>>

\* an enrichment loop whose reasoning error reaches cluster_issues
EnrichCluster_propagating ==
    /\ cpc = "enrich"
    /\ epos <= Len(clusters)
    /\ \E reply \in EnrichReplies :
         IF reply.kind = "error"
         THEN /\ clusters' = clusters
              /\ epos' = epos
              /\ cpc' = "done"
         ELSE /\ clusters' = [clusters EXCEPT
                                ![epos] = _enrich_cluster(@, reply)]
              /\ epos' = epos + 1
              /\ cpc' = cpc
    /\ UNCHANGED <<auxVars, flattened_issues, pos, evalVars, regVars, svcVars>>

\* one turn of the enrichment loop: _enrich_cluster(cluster) returns
\* whatever the reasoning call did
EnrichCluster ==
    /\ cpc = "enrich"
    /\ epos <= Len(clusters)
    /\ \E reply \in EnrichReplies :
         clusters' = [clusters EXCEPT ![epos] = _enrich_cluster(@, reply)]
    /\ epos' = epos + 1
    /\ UNCHANGED <<auxVars, flattened_issues, pos, cpc, evalVars, regVars, svcVars>>

ClusterReturn ==
    /\ cpc = "enrich"
    /\ epos > Len(clusters)
    /\ cpc' = "done"
    /\ UNCHANGED <<auxVars, flattened_issues, clusters, pos, epos, evalVars, regVars, svcVars>>

ClusterNext ==
    JoinCluster \/ OpenCluster \/ StartEnrich \/ EnrichCluster \/ ClusterReturn

SpecCluster == ClusterInit /\ [][ClusterNext]_vars

\* ------------------------------------------------------------------------
\* cluster_issues called again on the list it was given before.  An item
\* dict holds the key "embedding" or not (cached); the value kept under it
\* for an item without the key is a stand-in that is never read.
\* ------------------------------------------------------------------------
RerunItemPool ==
    {[conversation_id |-> i.conversation_id, issue_type |-> i.issue_type,
      description |-> i.description, embedding |-> i.embedding,
      cached |-> c] :
        i \in ItemPool, c \in BOOLEAN} \
    {x \in [conversation_id : {"c1", "c2"}, issue_type : {"missing_param"},
            description : {"d1"},
            embedding : {Vec(v) : v \in EmbeddingPool},
            cached : {FALSE}] : x.embedding # Vec(<<0, 0>>)}

\* an embedding step that asks the capability for every item
EmbedItem_regenerating(item, fresh) ==
    [item EXCEPT !.embedding = Vec(fresh), !.cached = TRUE]

\* if "embedding" not in item: item["embedding"] = generate_embedding(...)
EmbedItem(item, fresh) ==
    IF item.cached THEN item
    ELSE [item EXCEPT !.embedding = Vec(fresh), !.cached = TRUE]

TwiceInit ==
    /\ flattened_issues \in SeqsUpTo(RerunItemPool, MaxRerunItems)
    /\ clusters = <<>>
    /\ pos = 1
    /\ epos = 1
    /\ cpc = "idle"
    /\ EvalIdle
    /\ RegIdle
    /\ SvcIdle
    /\ AuxIdle

\* what generate_embedding returns for the items of a list: drawn for the
\* items that hold no embedding, the stand-in for the others
FreshEmbeddings(items) ==
    {f \in [1..Len(items) -> EmbeddingPool] :
        \A i \in 1..Len(items) : items[i].cached => f[i] = <<0, 0>>}

\* one whole call of cluster_issues on the list: embeddings for the items
\* that hold none (kept in the item dicts), greedy assignment, enrichment
\* (the reasoning capability's behaviour drawn once for the call); last_op
\* keeps the number of the call and the membership the call before returned
cluster_issues(run) ==
    /\ \E fresh \in FreshEmbeddings(flattened_issues),
          reply \in EnrichReplies :
         LET items == [i \in 1..Len(flattened_issues) |->
                          EmbedItem(flattened_issues[i], fresh[i])]
             cs == AssignAll(<<>>, items, 1)
         IN /\ flattened_issues' = items
            /\ clusters' = [j \in 1..Len(cs) |-> _enrich_cluster(cs[j], reply)]
            /\ pos' = Len(items) + 1
            /\ epos' = Len(cs) + 1
    /\ cpc' = "done"
    /\ last_op' = [op |-> "cluster_issues", run |-> run, error |-> FALSE,
                   previous |-> [j \in 1..Len(clusters) |->
                                    Membership(clusters[j])]]
    /\ UNCHANGED <<auxVars, evalVars, regVars, proposalVars, ops>>

ClusterFirst ==
    /\ last_op = NoOp
    /\ cluster_issues(1)

ClusterAgain ==
    /\ last_op.op = "cluster_issues"
    /\ last_op.run = 1
    /\ cluster_issues(2)

TwiceNext == ClusterFirst \/ ClusterAgain

SpecTwice == TwiceInit /\ [][TwiceNext]_vars

\* ------------------------------------------------------------------------
\* Evaluation service over a repository
\* ------------------------------------------------------------------------
Stored(cid) == \E i \in 1..Len(conversations) : conversations[i] = cid

\* the repository's _evaluations dict: conversation id -> latest evaluation
HasEvaluation(cid) == cid \in DOMAIN evaluations

\* save_evaluation
save_evaluation(evs, res) ==
    [c \in DOMAIN evs \cup {res.conversation_id} |->
        IF c = res.conversation_id THEN res ELSE evs[c]]

\* a saved EvaluationResult carries the time of its creation: cid becomes
\* the most recently evaluated id
Stamp(order, cid) == Append(SelectSeq(order, LAMBDA c : c # cid), cid)

\* evaluate_conversation on a conversation object
evaluate_conversation(cid, strategies, outcomes) ==
    IF strategies = <<>> THEN EmptyResult(cid)
    ELSE RunStrategies(cid, strategies, outcomes)

RECURSIVE SaveAll(_, _)
SaveAll(evs, results) ==
    IF results = <<>> THEN evs
    ELSE SaveAll(save_evaluation(evs, Head(results)), Tail(results))

RECURSIVE StampAll(_, _)
StampAll(order, results) ==
    IF results = <<>> THEN order
    ELSE StampAll(Stamp(order, Head(results).conversation_id), Tail(results))

EvalInit ==
    /\ registry \in SUBSET RegisteredPool
    /\ conversations = <<>>
    /\ evaluations = <<>>
    /\ eval_order = <<>>
    /\ result = NoResult
    /\ last_outcomes = <<>>
    /\ ClusterIdle
    /\ RegIdle
    /\ SvcIdle
    /\ AuxIdle

\* save_conversation of a new conversation
Ingest(cid) ==
    /\ ~Stored(cid)
    /\ Tick
    /\ conversations' = Append(conversations, cid)
    /\ last_op' = [op |-> "ingest", conversation_id |-> cid, error |-> FALSE]
    /\ UNCHANGED <<auxVars, registry, evaluations, eval_order, result, last_outcomes,
                   clusterVars, regVars, proposalVars>>

\* evaluate(id) for an id the repository does not hold: EvaluationError
EvaluateNotFound(cid) ==
    /\ ~Stored(cid)
    /\ Tick
    /\ result' = [status |-> "EvaluationError", conversation_id |-> cid]
    /\ last_outcomes' = <<>>
    /\ last_op' = [op |-> "evaluate", conversation_id |-> cid, error |-> TRUE]
    /\ UNCHANGED <<auxVars, registry, conversations, evaluations, eval_order,
                   clusterVars, regVars, proposalVars>>

\* evaluate(id) when no configured name resolves: early return
EvaluateNoStrategies(cid) ==
    /\ Stored(cid)
    /\ _get_active_strategies(registry, ConfiguredEvaluators) = <<>>
    /\ Tick
    /\ result' = EmptyResult(cid)
    /\ last_outcomes' = <<>>
    /\ last_op' = [op |-> "evaluate", conversation_id |-> cid, error |-> FALSE]
    /\ UNCHANGED <<auxVars, registry, conversations, evaluations, eval_order,
                   clusterVars, regVars, proposalVars>>

\* evaluate(id): run every strategy, post-process, persist, return
EvaluateRun(cid) ==
    LET strategies == _get_active_strategies(registry, ConfiguredEvaluators)
    IN /\ Stored(cid)
       /\ strategies # <<>>
       /\ Tick
       /\ \E outcomes \in [1..Len(strategies) -> EvalOutcomes] :
            LET res == RunStrategies(cid, strategies, outcomes)
            IN /\ evaluations' = save_evaluation(evaluations, res)
               /\ eval_order' = Stamp(eval_order, cid)
               /\ result' = res
               /\ last_outcomes' = outcomes
       /\ last_op' = [op |-> "evaluate", conversation_id |-> cid,
                      error |-> FALSE]
       /\ UNCHANGED <<auxVars, registry, conversations, clusterVars, regVars,
                      proposalVars>>

Reverse(s) == [i \in 1..Len(s) |-> s[Len(s) + 1 - i]]

\* list_conversations: newest first
list_conversations(convs) == Reverse(convs)

\* the ids a loop over evaluate(cid) gets through when the first
\* EvaluationError leaves the loop: the ids before the first unknown one
RECURSIVE UntilFirstMissing(_, _)
UntilFirstMissing(ids, convs) ==
    IF ids = <<>> THEN <<>>
    ELSE IF \E i \in 1..Len(convs) : convs[i] = Head(ids)
         THEN <<Head(ids)>> \o UntilFirstMissing(Tail(ids), convs)
         ELSE <<>>

\* the ids a loop gets through when each evaluate(cid) sits in its own
\* try/except: every known id
SkippingMissing(ids, convs) ==
    SelectSeq(ids, LAMBDA c : \E i \in 1..Len(convs) : convs[i] = c)

\* get_pending_conversations: stored ids without an evaluation, oldest first
get_pending_conversations(convs, evs) ==
    SelectSeq(convs, LAMBDA c : c \notin DOMAIN evs)

\* evaluate(cid) on each of the ids in turn; each run that had a strategy to
\* apply is persisted.  How each evaluator behaves is drawn once for the
\* batch.
EvaluateAll(op, ids, done, raised) ==
    LET strategies == _get_active_strategies(registry, ConfiguredEvaluators)
    IN /\ Tick
       /\ \E outcomes \in [1..Len(strategies) -> EvalOutcomes] :
            LET results == [i \in 1..Len(done) |->
                               evaluate_conversation(done[i], strategies,
                                                     outcomes)]
            IN IF strategies = <<>>
               THEN UNCHANGED <<evaluations, eval_order>>
               ELSE /\ evaluations' = SaveAll(evaluations, results)
                    /\ eval_order' = StampAll(eval_order, results)
       /\ result' = NoResult
       /\ last_outcomes' = <<>>
       /\ last_op' = [op |-> op, ids |-> ids, evaluated |-> done,
                      error |-> raised]
       /\ UNCHANGED <<auxVars, registry, conversations, clusterVars, regVars,
                      proposalVars>>

\* evaluate_batch: [self.evaluate(cid) for cid in conversation_ids]
evaluate_batch(ids) ==
    LET done == UntilFirstMissing(ids, conversations)
    IN EvaluateAll("evaluate_batch", ids, done, done # ids)

\* evaluate_pending(force): every listed conversation, or the pending ones
evaluate_pending(force) ==
    LET pending_ids == IF force THEN list_conversations(conversations)
                       ELSE get_pending_conversations(conversations,
                                                      evaluations)
    IN /\ Len(pending_ids) <= MaxBatch
       /\ EvaluateAll("evaluate_pending", pending_ids,
                      UntilFirstMissing(pending_ids, conversations),
                      UntilFirstMissing(pending_ids, conversations)
                          # pending_ids)

\* BatchPipelineProcessor._evaluate_conversations_with_progress
_evaluate_conversations_with_progress(ids) ==
    EvaluateAll("_evaluate_conversations_with_progress", ids,
                SkippingMissing(ids, conversations), FALSE)

EvalNext ==
    \E cid \in ConvIds :
        \/ Ingest(cid)
        \/ EvaluateNotFound(cid)
        \/ EvaluateNoStrategies(cid)
        \/ EvaluateRun(cid)

SpecEval == EvalInit /\ [][EvalNext]_vars

\* the orchestrator driven through its batch entry points
BatchNext ==
    \/ \E cid \in ConvIds : Ingest(cid)
    \/ \E ids \in SeqsUpTo(ConvIds, MaxBatch) :
        \/ evaluate_batch(ids)
        \/ _evaluate_conversations_with_progress(ids)
    \/ \E force \in BOOLEAN : evaluate_pending(force)

SpecBatch == EvalInit /\ [][BatchNext]_vars


\* ------------------------------------------------------------------------
\* Regression runs over drawn aggregate scores
\* ------------------------------------------------------------------------
ScorePool == {Rat(0), Rat(5000), Rat(5004), Rat(6500), Rat(9500)}

RegInit ==
    /\ \E n \in 0..MaxCases :
         /\ base_evals \in [1..n -> {{}} \cup {{x} : x \in ScorePool}]
         /\ shadow_evals \in [1..n -> ScorePool]
    /\ proposal_type \in {"prompt", "tool"}
    /\ report = NoReport
    /\ ClusterIdle
    /\ EvalIdle
    /\ SvcIdle
    /\ AuxIdle

\* run_regression over a test set whose stored evaluations are base_evals
RunRegression ==
    /\ report' = SimulatedReport(proposal_type, base_evals, shadow_evals)
    /\ UNCHANGED <<auxVars, base_evals, shadow_evals, proposal_type,
                   clusterVars, evalVars, svcVars>>

\* run_real_regression: every conversation of both batches was evaluated
RunRealRegression ==
    /\ \A i \in 1..Len(base_evals) : base_evals[i] # {}
    /\ report' = RealReport(
                    [i \in 1..Len(base_evals) |->
                        CHOOSE x \in base_evals[i] : TRUE],
                    shadow_evals)
    /\ UNCHANGED <<auxVars, base_evals, shadow_evals, proposal_type,
                   clusterVars, evalVars, svcVars>>

RegNext == RunRegression \/ RunRealRegression

SpecReg == RegInit /\ [][RegNext]_vars

\* ------------------------------------------------------------------------
\* Analysis orchestrator (src/analysis/service.py) over the repository
\* ------------------------------------------------------------------------
\* ids of the conversations the demo agent generates (demo_<uuid>), in the
\* order they are handed out
DemoIds == <<"demo_1", "demo_2">>

\* f"shadow_{original.conversation_id}"
ShadowId ==
    [c1 |-> "shadow_c1", c2 |-> "shadow_c2",
     demo_1 |-> "shadow_demo_1", demo_2 |-> "shadow_demo_2"]

\* list_evaluations: latest timestamp first
list_evaluations(evs, order) == [i \in 1..Len(order) |-> evs[Reverse(order)[i]]]

\* flatten_issue: one occurrence per issue of the evaluation
flatten_issue(evaluation) ==
    [i \in 1..Len(evaluation.issues) |->
        [conversation_id |-> evaluation.conversation_id,
         issue_type |-> evaluation.issues[i].issue_type,
         description |-> evaluation.issues[i].description]]

\* prepare_batch_data: evaluations whose conversation is not among convs
\* contribute nothing
prepare_batch_data(evals, convs) ==
    ConcatAll([i \in 1..Len(evals) |->
                 IF evals[i].conversation_id \in convs
                 THEN flatten_issue(evals[i]) ELSE <<>>])

\* embeddings the embedding capability returns during an analysis cycle
CycleEmbeddings == { <<1, 0>>, <<1, 2>> }

\* the artifacts run_analysis_cycle reads (_load_prompt,
\* _load_tool_definitions)
current_prompt == "prompt_v1"
tool_definitions == "tool_schema_v1"

\* explanations that contain one of the keywords tool, parameter, argument,
\* schema, invalid value; issue types that contain "tool"
ToolExplanations == {"tool parameter schema unclear"}
ToolIssueTypes == {"invalid_tool", "tool_hallucination"}

is_tool_issue(cluster) ==
    \/ cluster.explanation \in ToolExplanations
    \/ cluster.issue_types \cap ToolIssueTypes # {}

\* what the reasoning capability does for one generate_proposal call: a
\* usable JSON reply, an error of the call, or content json.loads rejects;
\* text is the snippet of a reply (proposed_snippet_crlf is proposed_snippet
\* with "\r\n" line ends) and str(e) of a failure
GenerationOutcomes ==
    { [kind |-> "reply", text |-> "proposed_snippet"],
      [kind |-> "reply", text |-> "proposed_snippet_crlf"],
      [kind |-> "error", text |-> "Connection error."],
      [kind |-> "malformed", text |-> "Expecting value: line 1 column 1"] }

\* the metadata update of run_analysis_cycle
CycleMetadata ==
    [prompt_path |-> "artifacts/prompts/prompt_v1.txt",
     tool_schema_path |-> "artifacts/tools/tool_schema_v1.json",
     artifact_version_hint |-> "v1"]

\* dict.update: the entries of new win
Updated(old, new) == new @@ old

\* a fallback that keeps the proposal reviewable
_error_proposal_draft(cluster, current, error, id) ==
    [proposal_id |-> id, type |-> "prompt", status |-> "draft",
     rationale |-> <<"Failed to generate suggestion: ", error>>,
     original_content |-> current,
     proposed_content |-> "", evidence_ids |-> <<>>,
     regression_report |-> {},
     metadata |-> <<>>]

\* _error_proposal: prompt type, REJECTED, the rationale
\* f"Failed to generate suggestion: {error}", no proposed content, no
\* evidence
_error_proposal(cluster, current, error, id) ==
    [proposal_id |-> id, type |-> "prompt", status |-> "rejected",
     rationale |-> <<"Failed to generate suggestion: ", error>>,
     original_content |-> current,
     proposed_content |-> "", evidence_ids |-> <<>>,
     regression_report |-> {},
     metadata |-> <<>>]

\* _generate_prompt_proposal: the call and the parse sit in one try
_generate_prompt_proposal(cluster, outcome, id) ==
    IF outcome.kind # "reply"
    THEN _error_proposal(cluster, current_prompt, outcome.text, id)
    ELSE [proposal_id |-> id, type |-> "prompt", status |-> "draft",
          rationale |-> <<"reply rationale">>,
          original_content |-> current_prompt,
          proposed_content |-> outcome.text,
          evidence_ids |-> cluster.conversation_ids,
          regression_report |-> {},
          metadata |-> [confidence |-> "0.9"]]

\* _generate_tool_proposal: the call and the parse sit in one try
_generate_tool_proposal(cluster, outcome, id) ==
    IF outcome.kind # "reply"
    THEN _error_proposal(cluster, "Tool Schema Modification", outcome.text,
                         id)
    ELSE [proposal_id |-> id, type |-> "tool", status |-> "draft",
          rationale |-> <<"reply rationale">>,
          original_content |-> tool_definitions,
          proposed_content |-> "proposed_schema",
          evidence_ids |-> cluster.conversation_ids,
          regression_report |-> {},
          metadata |-> [tool_name |-> "flight_search",
                        fix_category |-> "schema_fix"]]

\* generate_proposal followed by the metadata update of run_analysis_cycle
generate_proposal(cluster, outcome, id) ==
    LET proposal == IF is_tool_issue(cluster)
                    THEN _generate_tool_proposal(cluster, outcome, id)
                    ELSE _generate_prompt_proposal(cluster, outcome, id)
    IN [proposal EXCEPT !.metadata = Updated(@, CycleMetadata)]

\* the evaluations run_analysis_cycle keeps: those with issues
evals_with_issues(evs, order) ==
    SelectSeq(list_evaluations(evs, order), LAMBDA e : e.issues # <<>>)

StoredIds == {conversations[i] : i \in 1..Len(conversations)}

\* what last_op records of the evaluations a cycle fetched
Fetched(evals) ==
    [i \in 1..Len(evals) |->
        [conversation_id |-> evals[i].conversation_id,
         issues |-> evals[i].issues]]

\* run_analysis_cycle when no evaluation has issues: returns []
run_analysis_cycle_empty ==
    /\ evals_with_issues(evaluations, eval_order) = <<>>
    /\ Tick
    /\ flattened_issues' = <<>>
    /\ clusters' = <<>>
    /\ pos' = 1
    /\ epos' = 1
    /\ cpc' = "done"
    /\ last_op' = [op |-> "run_analysis_cycle", fetched |-> <<>>,
                   created |-> 0, generation |-> <<>>, error |-> FALSE]
    /\ UNCHANGED <<auxVars, evalVars, regVars, proposals, active_prompt, active_tool,
                   next_demo>>

\* run_analysis_cycle: fetch, flatten, cluster (embed, assign, enrich),
\* generate and save one proposal per cluster
run_analysis_cycle ==
    LET fetched == evals_with_issues(evaluations, eval_order)
        convs == {fetched[i].conversation_id : i \in 1..Len(fetched)}
                     \cap StoredIds
        occurrences == prepare_batch_data(fetched, convs)
    IN /\ fetched # <<>>
       /\ Tick
       /\ \E embs \in [1..Len(occurrences) -> CycleEmbeddings] :
            LET items == [i \in 1..Len(occurrences) |->
                            [conversation_id |-> occurrences[i].conversation_id,
                             issue_type |-> occurrences[i].issue_type,
                             description |-> occurrences[i].description,
                             embedding |-> Vec(embs[i])]]
                cs == AssignAll(<<>>, items, 1)
            IN /\ Len(proposals) + Len(cs) <= MaxProposals
               /\ \E replies \in [1..Len(cs) -> EnrichReplies],
                     gens \in [1..Len(cs) -> GenerationOutcomes] :
                    LET enriched == [j \in 1..Len(cs) |->
                                        _enrich_cluster(cs[j], replies[j])]
                    IN /\ flattened_issues' = items
                       /\ clusters' = enriched
                       /\ pos' = Len(items) + 1
                       /\ epos' = Len(cs) + 1
                       /\ cpc' = "done"
                       /\ proposals' = proposals \o
                            [j \in 1..Len(cs) |->
                                generate_proposal(enriched[j], gens[j],
                                                  Len(proposals) + j)]
                       /\ last_op' = [op |-> "run_analysis_cycle",
                                      fetched |-> Fetched(fetched),
                                      created |-> Len(cs),
                                      generation |-> gens,
                                      error |-> FALSE]
       /\ UNCHANGED <<auxVars, evalVars, regVars, active_prompt, active_tool, next_demo>>

\* get_evaluation(cid) reduced to its aggregate score; None: the empty set
BaseScore(evs, cid) ==
    IF cid \in DOMAIN evs THEN {evs[cid].aggregate_score} ELSE {}

\* verify_proposal keeping every report it ever attached
AttachReport_accumulating(proposal, rep) ==
    [proposal EXCEPT !.regression_report = @ \cup {rep},
                     !.status = "testing"]

\* verify_proposal, step 3: proposal.regression_report = report;
\* proposal.status = TESTING
AttachReport(proposal, rep) ==
    [proposal EXCEPT !.regression_report = {rep},
                     !.status = "testing"]

\* verify_proposal on a stored proposal: run_regression over the stored
\* conversations (base evaluations read first, then every shadow
\* conversation evaluated and, with an active strategy, saved), the report
\* attached, status TESTING, proposal saved; last_op keeps the report the
\* proposal held before the call
verify_proposal(pid) ==
    LET strategies == _get_active_strategies(registry, ConfiguredEvaluators)
        test_set == list_conversations(conversations)
    IN /\ pid \in 1..Len(proposals)
       /\ Tick
       /\ \E outs \in [1..Len(test_set) ->
                         [1..Len(strategies) -> RegressionOutcomes]] :
            LET base == [i \in 1..Len(test_set) |->
                            BaseScore(evaluations, test_set[i])]
                shadows == [i \in 1..Len(test_set) |->
                               evaluate_conversation(ShadowId[test_set[i]],
                                                     strategies, outs[i])]
                scores == [i \in 1..Len(test_set) |->
                              shadows[i].aggregate_score]
                saved == IF strategies = <<>> THEN <<>> ELSE shadows
                rep == SimulatedReport(proposals[pid].type, base, scores)
            IN /\ evaluations' = SaveAll(evaluations, saved)
               /\ eval_order' = StampAll(eval_order, saved)
               /\ base_evals' = base
               /\ shadow_evals' = scores
               /\ proposal_type' = proposals[pid].type
               /\ report' = rep
               /\ proposals' = [proposals EXCEPT ![pid] = AttachReport(@, rep)]
               /\ last_op' = [op |-> "verify_proposal", proposal_id |-> pid,
                              error |-> FALSE,
                              replaced |-> proposals[pid].regression_report]
       /\ UNCHANGED <<auxVars, registry, conversations, result, last_outcomes,
                      clusterVars, active_prompt, active_tool, next_demo>>

\* an apply that asks for a regression report showing an improvement
apply_proposal_gated(pid) ==
    /\ pid \in 1..Len(proposals)
    /\ \E rep \in proposals[pid].regression_report : rep.overall_improvement
    /\ Tick
    /\ LET proposal == proposals[pid]
           artifacts ==
               IF proposal.type = "prompt"
               THEN [prompt_path |-> "artifacts/prompts/active_prompt.txt"]
               ELSE [tool_schema_path |->
                         "artifacts/tools/active_tool_schema.json"]
       IN /\ active_prompt' = IF proposal.type = "prompt"
                              THEN {proposal.proposed_content}
                              ELSE active_prompt
          /\ active_tool' = IF proposal.type = "tool"
                            THEN {proposal.proposed_content}
                            ELSE active_tool
          /\ proposals' = [proposals EXCEPT
                             ![pid].status = "approved",
                             ![pid].metadata = Updated(@, artifacts)]
          /\ last_op' = [op |-> "apply_proposal", proposal_id |-> pid,
                         error |-> FALSE]
    /\ UNCHANGED <<auxVars, evalVars, clusterVars, regVars, next_demo>>

\* apply_proposal on a stored proposal: proposed_content written to the
\* active artifact of the proposal's type, status APPROVED, the artifact
\* path merged into the metadata, proposal saved
apply_proposal(pid) ==
    /\ pid \in 1..Len(proposals)
    /\ Tick
    /\ LET proposal == proposals[pid]
           artifacts ==
               IF proposal.type = "prompt"
               THEN [prompt_path |-> "artifacts/prompts/active_prompt.txt"]
               ELSE [tool_schema_path |->
                         "artifacts/tools/active_tool_schema.json"]
       IN /\ active_prompt' = IF proposal.type = "prompt"
                              THEN {proposal.proposed_content}
                              ELSE active_prompt
          /\ active_tool' = IF proposal.type = "tool"
                            THEN {proposal.proposed_content}
                            ELSE active_tool
          /\ proposals' = [proposals EXCEPT
                             ![pid].status = "approved",
                             ![pid].metadata = Updated(@, artifacts)]
          /\ last_op' = [op |-> "apply_proposal", proposal_id |-> pid,
                         error |-> FALSE]
    /\ UNCHANGED <<auxVars, evalVars, clusterVars, regVars, next_demo>>

\* Path.read_text: text mode with universal newlines, every "\r\n" of the
\* file comes back as "\n"
read_text(content) ==
    IF content = "proposed_snippet_crlf" THEN "proposed_snippet" ELSE content

\* original_prompt = active_prompt.read_text() if active_prompt.exists()
\* else None
original_prompt(file) == {read_text(c) : c \in file}

\* the baseline run forces prompt v1 when that artifact exists
write_baseline(file, baseline_exists) ==
    IF baseline_exists THEN {current_prompt} ELSE file

\* the updated run writes the original back when there was one
write_original(file, original) ==
    IF original # {} THEN original ELSE file

\* the finally clause: unlink when there was no original, else write it
finally_restore(file, original) ==
    IF original = {} THEN {} ELSE original

\* the exits of RegressionTester.run_real_regression: it returns, or the
\* agent call of some prompt raises in the baseline or in the updated batch
RegressionExits == {"returns", "baseline_raises", "updated_raises"}

\* run_real_regression on a stored proposal with n prompts: a baseline batch
\* and an updated batch, each ingesting one generated conversation per
\* prompt and then evaluating them.  A batch whose agent call raises at
\* prompt k + 1 has ingested k conversations and evaluated none.  On every
\* exit the finally clause has run; when the tester returns, the report is
\* attached and the proposal saved, its status untouched
run_real_regression(pid, n, exit, k) ==
    LET strategies == _get_active_strategies(registry, ConfiguredEvaluators)
        done == IF exit = "returns" THEN 2 * n
                ELSE IF exit = "baseline_raises" THEN 0 ELSE n
        ingested == IF exit = "returns" THEN 2 * n ELSE done + k
        ids == [i \in 1..ingested |-> DemoIds[next_demo + i - 1]]
        original == original_prompt(active_prompt)
    IN /\ pid \in 1..Len(proposals)
       /\ exit = "returns" => k = 0
       /\ exit # "returns" => k < n
       /\ next_demo + ingested - 1 <= Len(DemoIds)
       /\ Tick
       /\ \E baseline_exists \in BOOLEAN :
            LET baseline == write_baseline(active_prompt, baseline_exists)
                during == IF exit = "baseline_raises" THEN baseline
                          ELSE write_original(baseline, original)
            IN active_prompt' = finally_restore(during, original)
       /\ \E outs \in [1..done -> [1..Len(strategies) -> RegressionOutcomes]] :
            LET results == [i \in 1..done |->
                               evaluate_conversation(ids[i], strategies,
                                                     outs[i])]
                saved == IF strategies = <<>> THEN <<>> ELSE results
            IN /\ conversations' = conversations \o ids
               /\ next_demo' = next_demo + ingested
               /\ evaluations' = SaveAll(evaluations, saved)
               /\ eval_order' = StampAll(eval_order, saved)
               /\ IF exit = "returns"
                  THEN LET base_scores ==
                               [i \in 1..n |-> results[i].aggregate_score]
                           updated_scores ==
                               [i \in 1..n |-> results[n + i].aggregate_score]
                           rep == RealReport(base_scores, updated_scores)
                       IN /\ base_evals' = [i \in 1..n |-> {base_scores[i]}]
                          /\ shadow_evals' = updated_scores
                          /\ proposal_type' = proposals[pid].type
                          /\ report' = rep
                          /\ proposals' = [proposals EXCEPT
                                             ![pid].regression_report = {rep}]
                  ELSE UNCHANGED <<regVars, proposals>>
       /\ last_op' = [op |-> "run_real_regression", proposal_id |-> pid,
                      error |-> exit # "returns", exit |-> exit]
       /\ UNCHANGED <<auxVars, registry, result, last_outcomes, clusterVars,
                      active_tool>>

\* a lookup that comes after the baseline prompt has been written
proposal_not_found_late(op) ==
    /\ Tick
    /\ last_op' = [op |-> op, proposal_id |-> Len(proposals) + 1,
                   error |-> TRUE]
    /\ active_prompt' = {current_prompt}
    /\ UNCHANGED <<auxVars, evalVars, clusterVars, regVars, proposals, active_tool,
                   next_demo>>

\* verify_proposal, apply_proposal or run_real_regression with an id the
\* store does not hold: ValueError, nothing changes
proposal_not_found(op) ==
    /\ Tick
    /\ last_op' = [op |-> op, proposal_id |-> Len(proposals) + 1,
                   error |-> TRUE]
    /\ UNCHANGED <<auxVars, evalVars, clusterVars, regVars, proposals, active_prompt,
                   active_tool, next_demo>>

Init ==
    /\ registry \in {{}, {"tool_call"}}
    /\ conversations = <<>>
    /\ evaluations = <<>>
    /\ eval_order = <<>>
    /\ result = NoResult
    /\ last_outcomes = <<>>
    /\ ClusterIdle
    /\ RegIdle
    /\ SvcIdle
    /\ AuxIdle

Next ==
    \/ \E cid \in ConvIds :
         \/ Ingest(cid)
         \/ EvaluateNotFound(cid)
         \/ EvaluateNoStrategies(cid)
         \/ EvaluateRun(cid)
    \/ run_analysis_cycle_empty
    \/ run_analysis_cycle
    \/ \E pid \in 1..MaxProposals :
         \/ verify_proposal(pid)
         \/ apply_proposal(pid)
         \/ \E n \in 0..MaxPrompts, exit \in RegressionExits, k \in 0..MaxPrompts :
              run_real_regression(pid, n, exit, k)
    \/ \E op \in {"verify_proposal", "apply_proposal", "run_real_regression"} :
         proposal_not_found(op)

Spec == Init /\ [][Next]_vars

\* ------------------------------------------------------------------------
\* Properties of the evaluation orchestrator
\* ------------------------------------------------------------------------
SubScoreSum(r) ==
    SumSeq([i \in 1..Len(r.evaluations) |-> SumSeq(r.evaluations[i].scores)])

SubScoreCount(r) ==
    SumSeq([i \in 1..Len(r.evaluations) |-> Len(r.evaluations[i].scores)])

AggregateIsMean(r) ==
    /\ r.aggregate_score.den > 0
    /\ IF SubScoreCount(r) = 0
       THEN r.aggregate_score.num = 0
       ELSE r.aggregate_score.num * SubScoreCount(r) =
                SubScoreSum(r) * r.aggregate_score.den

\* C1: the aggregate_score of every EvaluationResult the orchestrator returns
\* or stores is the mean of all sub-scores of all its evaluator results, each
\* counted once, and 0.0 when there is no sub-score.
C1_AggregateIsMean ==
    /\ result.status = "completed" => AggregateIsMean(result)
    /\ \A c \in DOMAIN evaluations : AggregateIsMean(evaluations[c])

\* a run whose evaluators report one and two sub-scores: mean 15000 / 3
C1_Witness ==
    /\ result.status = "completed"
    /\ Len(result.evaluations) = 2
    /\ result.evaluations[1].scores = <<10000>>
    /\ result.evaluations[2].scores = <<5000, 0>>
    /\ result.aggregate_score.num = 5000 * result.aggregate_score.den

ActiveNames == _get_active_strategies(registry, ConfiguredEvaluators)

\* C2: when an evaluator's _evaluate raises, Evaluator.evaluate returns the
\* degraded result (no scores, no issues, confidence 0.0, error and latency
\* in metadata) and the error does not leave it; every other evaluator still
\* contributes its own result, so the completed run has one entry per
\* instantiated evaluator, in order.
C2_DegradedNotPropagated ==
    (result.status = "completed" /\ last_outcomes # <<>>) =>
        /\ Len(result.evaluations) = Len(ActiveNames)
        /\ Len(last_outcomes) = Len(ActiveNames)
        /\ \A i \in 1..Len(ActiveNames) :
             LET e == result.evaluations[i]
                 o == last_outcomes[i]
             IN /\ e.evaluator_name = ActiveNames[i]
                /\ "latency_ms" \in e.metadata
                /\ IF o.kind = "raise"
                   THEN /\ e.scores = <<>>
                        /\ e.issues = <<>>
                        /\ e.confidence = 0
                        /\ "error" \in e.metadata
                   ELSE /\ e.scores = o.scores
                        /\ e.issues = o.issues
                        /\ e.confidence = o.confidence
                        /\ "error" \notin e.metadata

\* the first evaluator raised and the second one still reported
C2_Witness ==
    /\ result.status = "completed"
    /\ Len(last_outcomes) = 2
    /\ last_outcomes[1].kind = "raise"
    /\ last_outcomes[2].kind = "ok"
    /\ result.evaluations[1].confidence = 0
    /\ result.evaluations[2].issues = <<Issue1>>

\* ------------------------------------------------------------------------
\* Properties of the regression tester
\* ------------------------------------------------------------------------
Reported == report.mode # "none"

\* C8: in simulated and in real mode, overall_improvement of a report is
\* true exactly when some ScoreDelta of it has is_improvement true.
C8_OverallIsAny ==
    Reported =>
        (report.overall_improvement <=>
            \E i \in 1..Len(report.score_deltas) :
                report.score_deltas[i].is_improvement)

\* a real-mode report that found an improvement
C8_Witness ==
    /\ report.mode = "real"
    /\ Len(report.score_deltas) = 1
    /\ report.score_deltas[1].is_improvement
    /\ report.overall_improvement

\* the baseline mean of the run: mean of the aggregate scores on record
BaselineMean ==
    LET present == SelectSeq(base_evals, LAMBDA e : e # {})
    IN MeanOrZero([i \in 1..Len(present) |-> CHOOSE x \in present[i] : TRUE])

\* the new mean of the run: the mean of the shadow (updated) scores, in
\* simulated mode times 1.15 and capped at 1.0 for a tool proposal
NewMean ==
    LET m == MeanOrZero(shadow_evals)
        b == [num |-> m.num * 115, den |-> m.den * 100]
    IN IF report.mode = "simulated" /\ proposal_type = "tool"
          /\ shadow_evals # <<>>
       THEN (IF RatLess(Rat(10000), b) THEN Rat(10000) ELSE b)
       ELSE m

\* v thousandths is within half a thousandth of x
RoundedFrom(v, x) ==
    /\ 2 * (v * 10 * x.den - x.num) <= 10 * x.den
    /\ 2 * (x.num - v * 10 * x.den) <= 10 * x.den

\* the claim as stated: is_improvement exactly when the reported new_val is
\* greater than the reported old_val
C9_ReportedValuesDecide ==
    Reported =>
        /\ \A i \in 1..Len(report.score_deltas) :
             report.score_deltas[i].is_improvement <=>
                 report.score_deltas[i].new_val > report.score_deltas[i].old_val
        /\ report.overall_improvement =>
             \E i \in 1..Len(report.score_deltas) :
                 report.score_deltas[i].new_val > report.score_deltas[i].old_val

\* C9 (amended): is_improvement of a ScoreDelta is true exactly when the
\* unrounded new mean is strictly greater than the unrounded baseline mean;
\* old_val and new_val are these means rounded to 3 decimals, so an
\* improvement has new_val >= old_val, new_val > old_val implies
\* is_improvement, and overall_improvement implies new mean > baseline mean.
C9_UnroundedMeansDecide ==
    Reported =>
        /\ \A i \in 1..Len(report.score_deltas) :
             LET d == report.score_deltas[i]
             IN /\ d.is_improvement <=> RatLess(BaselineMean, NewMean)
                /\ RoundedFrom(d.old_val, BaselineMean)
                /\ RoundedFrom(d.new_val, NewMean)
                /\ d.is_improvement => d.new_val >= d.old_val
                /\ d.new_val > d.old_val => d.is_improvement
        /\ report.overall_improvement => RatLess(BaselineMean, NewMean)

\* baseline mean 0.50 and shadow mean 0.65: ScoreDelta(0.5, 0.65, True)
C9_Witness ==
    /\ Reported
    /\ base_evals = << {Rat(5000)} >>
    /\ shadow_evals = << Rat(6500) >>
    /\ report.score_deltas[1].old_val = 500
    /\ report.score_deltas[1].new_val = 650
    /\ report.score_deltas[1].is_improvement
    /\ report.overall_improvement

\* ------------------------------------------------------------------------
\* Properties of the clustering engine
\* ------------------------------------------------------------------------
Emb(i) == flattened_issues[i].embedding

AssignStep == cpc = "assign" /\ pos <= Len(flattened_issues) /\ pos' = pos + 1

\* the clusters, in creation order, that qualify for the occurrence at pos
Qualifying ==
    {j \in 1..Len(clusters) :
        SimAtLeast(cosine_similarity(Emb(pos), clusters[j].mean_embedding),
                   similarity_threshold)}

FirstFitStep ==
    AssignStep =>
        IF Qualifying # {}
        THEN /\ Len(clusters') = Len(clusters)
             /\ \A j \in 1..Len(clusters) :
                  IF j = Min(Qualifying)
                  THEN clusters'[j].members = Append(clusters[j].members, pos)
                  ELSE clusters'[j] = clusters[j]
        ELSE /\ Len(clusters') = Len(clusters) + 1
             /\ clusters'[Len(clusters) + 1].members = <<pos>>
             /\ \A j \in 1..Len(clusters) : clusters'[j] = clusters[j]

\* two occurrences at similarity >= threshold and a third at most 0.10
\* similar to both give two clusters
ScenarioTwoClusters ==
    ( /\ cpc = "done"
      /\ Len(flattened_issues) = 3
      /\ SimAtLeast(cosine_similarity(Emb(2), Emb(1)), similarity_threshold)
      /\ ~IsZero(Emb(3))
      /\ SimAtMost(cosine_similarity(Emb(3), Emb(1)), 10)
      /\ SimAtMost(cosine_similarity(Emb(3), Emb(2)), 10) )
    => /\ Len(clusters) = 2
       /\ clusters[1].members = <<1, 2>>
       /\ clusters[2].members = <<3>>

\* C3: each occurrence, in input order, joins the first cluster (in creation
\* order) whose mean has cosine similarity >= 0.70 with it, even when a later
\* cluster is more similar, and opens a new singleton cluster when none
\* qualifies; two similar occurrences and a dissimilar third give 2 clusters.
C3_FirstFit == [][FirstFitStep]_vars /\ []ScenarioTwoClusters

\* an occurrence joined cluster 1 although cluster 2 was more similar to it
C3_Witness ==
    /\ cpc = "done"
    /\ Len(flattened_issues) = 3
    /\ Emb(1).num = <<1, 0>> /\ Emb(2).num = <<1, 2>> /\ Emb(3).num = <<1, 1>>
    /\ SimGreater(cosine_similarity(Emb(3), Emb(2)),
                  cosine_similarity(Emb(3), Emb(1)))
    /\ Len(clusters) = 2
    /\ clusters[1].members = <<1, 3>>
    /\ clusters[2].members = <<2>>

\* C4: after every assignment the mean embedding of every cluster is the
\* component-wise arithmetic mean of the raw embeddings of its members
\* (mean * k = sum of the k members' embeddings).
C4_MeanIsArithmeticMean ==
    \A j \in 1..Len(clusters) :
        LET c == clusters[j]
            k == Len(c.members)
        IN /\ k = Len(c.conversation_ids)
           /\ \A i \in DOMAIN c.mean_embedding.num :
                c.mean_embedding.num[i] * k =
                    SumSeq([m \in 1..k |-> Emb(c.members[m]).num[i]])
                    * c.mean_embedding.den

\* a cluster with three members that are not all the same vector
C4_Witness ==
    \E j \in 1..Len(clusters) :
        /\ Len(clusters[j].members) = 3
        /\ Emb(clusters[j].members[1]) # Emb(clusters[j].members[2])
        /\ Emb(clusters[j].members[2]) # Emb(clusters[j].members[3])

ZeroNeverMergesStep ==
    AssignStep =>
        /\ IsZero(Emb(pos)) =>
             /\ Len(clusters') = Len(clusters) + 1
             /\ \A j \in 1..Len(clusters) : clusters'[j] = clusters[j]
        /\ \A j \in 1..Len(clusters) :
             IsZero(clusters[j].mean_embedding) => clusters'[j] = clusters[j]

AllZeroGivesSingletons ==
    ( /\ cpc = "done"
      /\ \A i \in 1..Len(flattened_issues) : IsZero(Emb(i)) )
    => /\ Len(clusters) = Len(flattened_issues)
       /\ \A j \in 1..Len(clusters) : clusters[j].members = <<j>>

\* C5: an occurrence with an all-zero embedding never joins an existing
\* cluster, nothing joins a cluster whose mean is the zero vector, and when
\* every embedding is zero there is one singleton cluster per occurrence.
C5_ZeroNeverMerges == [][ZeroNeverMergesStep]_vars /\ []AllZeroGivesSingletons

\* all embeddings zero, several occurrences, one singleton cluster each
C5_Witness ==
    /\ cpc = "done"
    /\ Len(flattened_issues) >= 2
    /\ \A i \in 1..Len(flattened_issues) : IsZero(Emb(i))
    /\ Len(clusters) = Len(flattened_issues)

\* ------------------------------------------------------------------------
\* Properties of the analysis orchestrator
\* ------------------------------------------------------------------------
\* the status moves of the lifecycle DRAFT -> TESTING -> {APPROVED, REJECTED}
\* -> DEPLOYED, re-verification included
LifecycleMoves ==
    { <<"draft", "testing">>, <<"testing", "testing">>,
      <<"testing", "approved">>, <<"testing", "rejected">>,
      <<"approved", "deployed">>, <<"rejected", "deployed">> }

LifecycleStep ==
    /\ Len(proposals') >= Len(proposals)
    /\ \A p \in 1..Len(proposals) :
         \/ proposals'[p].status = proposals[p].status
         \/ <<proposals[p].status, proposals'[p].status>> \in LifecycleMoves
    /\ \A p \in (Len(proposals) + 1)..Len(proposals') :
         proposals'[p].status \in {"draft", "rejected"}

\* C6: across verify, real-regression and apply operations a stored
\* proposal's status only follows DRAFT -> TESTING -> {APPROVED, REJECTED}
\* -> DEPLOYED (TESTING -> TESTING on re-verification, REJECTED possible at
\* creation): no operation moves it backwards or reaches APPROVED without
\* passing through TESTING.
C6_LifecycleOnly == [][LifecycleStep]_vars

\* C7: verify_proposal on a stored proposal attaches the report of the
\* simulated regression it ran, sets the status to TESTING and saves the
\* proposal; a report attached earlier is replaced, so a proposal never
\* holds more than one report.
C7_VerifyAttachesLatest ==
    /\ \A p \in 1..Len(proposals) :
         Cardinality(proposals[p].regression_report) <= 1
    /\ (last_op.op = "verify_proposal" /\ ~last_op.error) =>
         /\ last_op.proposal_id \in 1..Len(proposals)
         /\ proposals[last_op.proposal_id].regression_report = {report}
         /\ proposals[last_op.proposal_id].status = "testing"
         /\ report = SimulatedReport(proposal_type, base_evals, shadow_evals)
         /\ proposal_type = proposals[last_op.proposal_id].type

\* a second verification whose report differs from the one it replaced
C7_Witness ==
    /\ last_op.op = "verify_proposal"
    /\ ~last_op.error
    /\ last_op.replaced # {}
    /\ last_op.replaced # {report}
    /\ proposals[last_op.proposal_id].regression_report = {report}
    /\ proposals[last_op.proposal_id].status = "testing"

FetchedIssueCount ==
    SumSeq([i \in 1..Len(last_op.fetched) |-> Len(last_op.fetched[i].issues)])

OccurrencesOf(cid) ==
    Cardinality({i \in 1..Len(flattened_issues) :
                    flattened_issues[i].conversation_id = cid})

\* C10: in one analysis cycle every issue of every fetched evaluation with
\* issues yields exactly one flattened occurrence, every occurrence is a
\* member of exactly one cluster, and the cluster member counts add up to
\* the number of issues of the fetched evaluations.
C10_NoIssueLostOrDuplicated ==
    last_op.op = "run_analysis_cycle" =>
        /\ \A i \in 1..Len(last_op.fetched) :
             OccurrencesOf(last_op.fetched[i].conversation_id) =
                 Len(last_op.fetched[i].issues)
        /\ Len(flattened_issues) = FetchedIssueCount
        /\ \A i \in 1..Len(flattened_issues) :
             Cardinality({j \in 1..Len(clusters) :
                 \E k \in 1..Len(clusters[j].members) :
                     clusters[j].members[k] = i}) = 1
        /\ SumSeq([j \in 1..Len(clusters) |->
                     Len(clusters[j].conversation_ids)]) = FetchedIssueCount

\* ------------------------------------------------------------------------
\* Further properties of the evaluation orchestrator
\* ------------------------------------------------------------------------
\* C11: whatever the configuration of enabled evaluators, even one in which
\* no configured name resolves, every EvaluationResult evaluate returns is
\* completed and already persisted: get_evaluation(conversation_id) yields
\* that same run.
C11_ReturnedIsPersisted ==
    result.status = "completed" =>
        /\ HasEvaluation(result.conversation_id)
        /\ evaluations[result.conversation_id] = result

\* the ids of a list that the repository knows
KnownIds(ids) == {ids[i] : i \in 1..Len(ids)} \cap StoredIds

EvaluatedIds == {last_op.evaluated[i] : i \in 1..Len(last_op.evaluated)}

\* C12: evaluate_batch, and evaluate_pending which delegates to it, is not
\* aborted by an id that cannot be evaluated: the call does not raise, and
\* every other id of the list has been evaluated and (an evaluator being
\* active) has its evaluation in the repository.
C12_BatchNotAborted ==
    last_op.op \in {"evaluate_batch", "evaluate_pending"} =>
        /\ ~last_op.error
        /\ KnownIds(last_op.ids) \subseteq EvaluatedIds
        /\ ActiveNames # <<>> =>
               \A c \in KnownIds(last_op.ids) : HasEvaluation(c)

\* what a client operation can change: the repository, the artifacts, the
\* registry, the last regression run and the last clustering
ProgramState ==
    <<registry, conversations, evaluations, eval_order, proposals,
      active_prompt, active_tool, next_demo, regVars, clusterVars>>

ProposalOps == {"verify_proposal", "apply_proposal", "run_real_regression"}

LookupMiss ==
    \/ /\ last_op'.op = "evaluate"
       /\ last_op'.conversation_id \notin StoredIds
    \/ /\ last_op'.op \in ProposalOps
       /\ last_op'.proposal_id \notin 1..Len(proposals)

LookupMissStep ==
    (ops' = ops + 1 /\ LookupMiss) =>
        /\ last_op'.error
        /\ UNCHANGED ProgramState

\* C13: a lookup miss raises and changes nothing: evaluate of an id the
\* repository does not hold raises EvaluationError and stores no evaluation;
\* verify_proposal, apply_proposal and run_real_regression of an unknown
\* proposal id raise before any regression run, artifact write or save.
C13_LookupMissChangesNothing == [][LookupMissStep]_vars

\* an unknown proposal id was refused while the repository held
\* conversations, evaluations and a proposal
C13_Witness ==
    /\ last_op.op = "verify_proposal"
    /\ last_op.error
    /\ Len(proposals) >= 1
    /\ DOMAIN evaluations # {}

\* the proposals the last analysis cycle created, in cluster order
CreatedByCycle ==
    [j \in 1..last_op.created |->
        proposals[Len(proposals) - last_op.created + j]]

RealRegressionStep ==
    /\ ops' = ops + 1
    /\ last_op'.op = "run_real_regression"
    /\ last_op'.proposal_id \in 1..Len(proposals)

\* C15: when run_real_regression ends, by returning or because the baseline
\* or the updated batch raised, the active prompt artifact is exactly as it
\* was before the call: the same content if it existed, absent if not.
C15_ActivePromptRestored ==
    [][RealRegressionStep => active_prompt' = active_prompt]_vars

\* on every exit the artifact is absent if it was absent, and otherwise
\* holds what read_text gave before the runs
C15_RestoredAsRead ==
    [][RealRegressionStep =>
          active_prompt' = original_prompt(active_prompt)]_vars

ApplyEffect ==
    (ops' = ops + 1 /\ last_op'.op = "apply_proposal" /\ ~last_op'.error) =>
        LET pid == last_op'.proposal_id
            proposal == proposals[pid]
        IN /\ pid \in 1..Len(proposals)
           /\ proposal.type = "prompt" =>
                  /\ active_prompt' = {proposal.proposed_content}
                  /\ active_tool' = active_tool
           /\ proposal.type = "tool" =>
                  /\ active_tool' = {proposal.proposed_content}
                  /\ active_prompt' = active_prompt
           /\ Len(proposals') = Len(proposals)
           /\ proposals'[pid].status = "approved"
           /\ proposals'[pid].proposed_content = proposal.proposed_content
           /\ \A q \in 1..Len(proposals) :
                  q # pid => proposals'[q] = proposals[q]

\* apply_proposal is open to every stored proposal, whatever its status and
\* whatever report it holds
ApplyUngated ==
    \A pid \in 1..Len(proposals) :
        ops < MaxOps => ENABLED apply_proposal(pid)

\* C16: apply_proposal on a stored proposal writes its proposed_content to
\* the active prompt artifact (prompt type) or to the active tool schema
\* artifact (tool type), leaves the other artifact alone, sets the status
\* APPROVED and saves the proposal; nothing gates it: it goes through with
\* or without a regression report and whatever overall_improvement says.
C16_ApplyWritesAndApproves == [][ApplyEffect]_vars /\ []ApplyUngated

\* a proposal whose attached report shows no improvement was applied
C16_Witness ==
    /\ last_op.op = "apply_proposal"
    /\ ~last_op.error
    /\ LET proposal == proposals[last_op.proposal_id]
       IN /\ proposal.status = "approved"
          /\ \E rep \in proposal.regression_report :
                ~rep.overall_improvement
          /\ active_prompt = {proposal.proposed_content}

\* ------------------------------------------------------------------------
\* Further properties of the regression tester
\* ------------------------------------------------------------------------
\* the mean of the shadow aggregate scores
ShadowMean == MeanOrZero(shadow_evals)

\* the shadow mean times (1 + 0.15), capped at 1.0
ShadowMeanBoosted ==
    LET b == [num |-> ShadowMean.num * 115, den |-> ShadowMean.den * 100]
    IN IF RatLess(Rat(10000), b) THEN Rat(10000) ELSE b

\* the shadow mean a simulated run is to report for the proposal's type
ExpectedShadowMean ==
    IF proposal_type = "tool" THEN ShadowMeanBoosted ELSE ShadowMean

\* v thousandths is exactly the score x
ExactlyReported(v, x) == v * 10 * x.den = x.num

SignificanceIsMembersTimesSeverity(cluster) ==
    cluster.significance_score =
        Len(cluster.conversation_ids) * cluster.severity

\* C18: when cluster() has returned, every cluster has significance_score =
\* (number of members) * severity: after a successful reasoning call, after
\* an enrichment failure, and on the path taken without a reasoning
\* capability.
C18_SignificanceExact ==
    cpc = "done" =>
        \A j \in 1..Len(clusters) :
            /\ SignificanceIsMembersTimesSeverity(clusters[j])
            /\ SignificanceIsMembersTimesSeverity(
                   _enrich_cluster(clusters[j], NoKeyReply))

\* a returned pair of clusters: two members at severity 7, and one whose
\* enrichment failed
C18_Witness ==
    /\ cpc = "done"
    /\ \E j, k \in 1..Len(clusters) :
         /\ Len(clusters[j].conversation_ids) = 2
         /\ clusters[j].severity = 7
         /\ clusters[j].significance_score = 14
         /\ clusters[k].label = "Analysis Failed"
         /\ clusters[k].significance_score = 0

ErrorTexts == {r.explanation : r \in {q \in EnrichReplies : q.kind = "error"}}

\* a turn of the enrichment loop keeps the membership of its cluster, leaves
\* the other clusters alone and goes on to the next one; a failed turn
\* records the error text and keeps severity and significance
EnrichTurn ==
    (cpc = "enrich" /\ clusters' # clusters) =>
        /\ cpc' = "enrich"
        /\ epos' = epos + 1
        /\ Len(clusters') = Len(clusters)
        /\ \A j \in 1..Len(clusters) :
             /\ Membership(clusters'[j]) = Membership(clusters[j])
             /\ j # epos => clusters'[j] = clusters[j]
        /\ clusters'[epos].label # ""
        /\ clusters'[epos].label = "Analysis Failed" =>
               /\ clusters'[epos].explanation \in ErrorTexts
               /\ clusters'[epos].severity = clusters[epos].severity
               /\ clusters'[epos].significance_score =
                      clusters[epos].significance_score

\* cluster() returns every cluster assignment made, each one labelled by its
\* own enrichment
AllEnriched ==
    cpc = "done" =>
        /\ Len(clusters) = Len(AssignAll(<<>>, flattened_issues, 1))
        /\ \A j \in 1..Len(clusters) :
             /\ clusters[j].label # ""
             /\ Membership(clusters[j]) =
                    Membership(AssignAll(<<>>, flattened_issues, 1)[j])

\* C19: when the reasoning call fails for one cluster, that cluster is still
\* returned, labelled "Analysis Failed" with the error text recorded, its
\* membership (conversation ids, descriptions, issue categories, mean
\* embedding) exactly as assignment left it; every other cluster is still
\* enriched and cluster() does not raise.
C19_FailedEnrichmentDegrades == [][EnrichTurn]_vars /\ []AllEnriched

\* the first cluster, of two members, failed and the second was enriched
C19_Witness ==
    /\ cpc = "done"
    /\ Len(clusters) >= 2
    /\ clusters[1].label = "Analysis Failed"
    /\ clusters[1].explanation = "timeout"
    /\ Len(clusters[1].conversation_ids) = 2
    /\ clusters[2].label = "Bad Tool Params"

\* C20: clustering is deterministic: a second cluster() on the same
\* occurrence list in the same order, whose items now carry the embeddings
\* the first run cached, returns the same number of clusters with the same
\* membership in the same order.
C20_RerunSameMembership ==
    (last_op.op = "cluster_issues" /\ last_op.run = 2) =>
        /\ Len(clusters) = Len(last_op.previous)
        /\ \A j \in 1..Len(clusters) :
             Membership(clusters[j]) = last_op.previous[j]

\* a second run over two occurrences with different embeddings, which the
\* first run had put in two clusters
C20_Witness ==
    /\ last_op.op = "cluster_issues"
    /\ last_op.run = 2
    /\ Len(flattened_issues) = 2
    /\ Len(clusters) = 2
    /\ Len(last_op.previous) = 2
    /\ flattened_issues[1].embedding # flattened_issues[2].embedding

\* ------------------------------------------------------------------------
\* Further properties of the proposal store, the repository and enrichment
\* ------------------------------------------------------------------------
\* C23: whenever a RegressionReport is attached to a proposal, by
\* verify_proposal or by run_real_regression, the proposal's status becomes
\* TESTING, so no stored proposal holds a regression report while its
\* status is still DRAFT.
C23_ReportImpliesTesting ==
    \A p \in 1..Len(proposals) :
        proposals[p].regression_report # {} => proposals[p].status # "draft"

\* C24: after evaluate_pending returns, get_pending_conversations() is
\* empty: every conversation the call was about (the pending ones, or with
\* force every stored one) has been evaluated and has an evaluation stored.
C24_PendingEmptyAfter ==
    (last_op.op = "evaluate_pending" /\ ~last_op.error) =>
        /\ get_pending_conversations(conversations, evaluations) = <<>>
        /\ \A i \in 1..Len(last_op.ids) : HasEvaluation(last_op.ids[i])

\* C27: after enrichment every cluster returned by cluster() has a severity
\* in [1,10], on every enrichment path (value of the reply, default for a
\* missing field, failed enrichment).
C27_SeverityInRange ==
    cpc = "done" =>
        \A j \in 1..Len(clusters) :
            clusters[j].severity >= 1 /\ clusters[j].severity <= 10

\* C29: after any sequence of ingest, evaluate, analysis-cycle and verify
\* operations every evaluation held by the repository refers to a
\* conversation held by the repository.
C29_EvaluationsHaveConversations ==
    \A c \in DOMAIN evaluations : c \in StoredIds

\* ------------------------------------------------------------------------
\* Construction of the analysis components and proposal generation
\* ------------------------------------------------------------------------
\* LLMClientFactory.__init__: a client built from the configured key; with
\* no key it raises ValueError and no factory exists (the empty set)
LLMClientFactory_init(key) ==
    IF key # "" THEN {[api_key |-> key]} ELSE {}

\* the components whose __init__ builds an LLMClientFactory
AnalysisComponents == {"ClusteringEngine", "SuggestionEngine"}

\* enriched clusters handed to generate_proposal
EngineClusters ==
    { [explanation |-> e, issue_types |-> t, conversation_ids |-> ids] :
        e \in {"tool parameter schema unclear", "dates misread"},
        t \in {{"missing_param"}, {"tool_hallucination"}},
        ids \in {<<"c1">>, <<"c1", "c2">>} }

\* _mock_proposal: the canned DRAFT proposal, the tool one or the prompt one
\* whose proposed content is the current prompt with a note appended
_mock_proposal(cluster, current, is_tool, id) ==
    IF is_tool
    THEN [proposal_id |-> id, type |-> "tool", status |-> "draft",
          rationale |-> <<"Mock rationale: Added enum validation to hotel_search location.">>,
          original_content |-> "location: string",
          proposed_content |-> "location: string, City name, must be capitalized",
          evidence_ids |-> cluster.conversation_ids,
          regression_report |-> {},
          metadata |-> [tool_name |-> "hotel_search"]]
    ELSE [proposal_id |-> id, type |-> "prompt", status |-> "draft",
          rationale |-> <<"Mock rationale: Added date format instructions.">>,
          original_content |-> current,
          proposed_content |-> "prompt_v1\n\nNote: Always use YYYY-MM-DD for dates.",
          evidence_ids |-> cluster.conversation_ids,
          regression_report |-> {},
          metadata |-> [mock |-> TRUE]]

\* SuggestionEngine.generate_proposal with the client of the factory
SuggestionEngine_generate_proposal(client, cluster, outcome, id) ==
    IF client.api_key = ""
    THEN _mock_proposal(cluster, current_prompt, is_tool_issue(cluster), id)
    ELSE IF is_tool_issue(cluster)
    THEN _generate_tool_proposal(cluster, outcome, id)
    ELSE _generate_prompt_proposal(cluster, outcome, id)

\* the environment either holds an api key or does not; nothing is built yet
EngineInit ==
    /\ api_key \in {"", "sk-test"}
    /\ factory = {}
    /\ InputIdle
    /\ HeapIdle
    /\ ClusterIdle
    /\ EvalIdle
    /\ RegIdle
    /\ SvcIdle

\* ClusteringEngine() or SuggestionEngine(): self.factory = LLMClientFactory()
ConstructComponent(component) ==
    /\ Tick
    /\ factory' = factory \cup LLMClientFactory_init(api_key)
    /\ last_op' = [op |-> "__init__", component |-> component,
                   error |-> LLMClientFactory_init(api_key) = {}]
    /\ UNCHANGED <<api_key, inputVars, heapVars, clusterVars, evalVars,
                   regVars, proposalVars>>

\* generate_proposal on a constructed SuggestionEngine
GenerateProposal ==
    /\ factory # {}
    /\ Tick
    /\ \E client \in factory, cluster \in EngineClusters,
          outcome \in GenerationOutcomes :
         last_op' = [op |-> "generate_proposal", error |-> FALSE,
                     cluster |-> cluster,
                     is_tool |-> is_tool_issue(cluster),
                     proposal |-> SuggestionEngine_generate_proposal(
                                      client, cluster, outcome, 1)]
    /\ UNCHANGED <<engineVars, inputVars, heapVars, clusterVars, evalVars,
                   regVars, proposalVars>>

EngineNext ==
    \/ \E component \in AnalysisComponents : ConstructComponent(component)
    \/ GenerateProposal

SpecEngine == EngineInit /\ [][EngineNext]_vars

\* C21: with no api key configured the analysis components can still be
\* constructed, and generate_proposal returns the canned proposal: DRAFT,
\* proposed_content non-empty and different from original_content, for the
\* prompt-related and for the tool-related classification.
C21_NoKeyStillGenerates ==
    api_key = "" =>
        /\ last_op.op = "__init__" => (~last_op.error /\ factory # {})
        /\ last_op.op = "generate_proposal" =>
             /\ last_op.proposal.status = "draft"
             /\ last_op.proposal.proposed_content # ""
             /\ last_op.proposal.proposed_content #
                    last_op.proposal.original_content

\* ------------------------------------------------------------------------
\* Evaluators applied to one conversation
\* (src/evaluation/evaluators/tool_call.py, tool_causality.py, llm_judge.py)
\* A text is a sequence of words and stands for the words joined by blanks;
\* a parameter value or a leaf of a tool result is one word.
\* ------------------------------------------------------------------------
MaxTurns == 2

\* str.lower()
Lower(w) ==
    IF w = "Paris" THEN "paris"
    ELSE IF w = "Parisian" THEN "parisian"
    ELSE w

LowerAll(text) == [i \in 1..Len(text) |-> Lower(text[i])]

\* the words that match ^\d{4}-\d{2}-\d{2}$
IsoDates == {"2025-03-05"}

\* re.findall(r'\w+', w.lower()) of one word
Tokens(w) ==
    IF w \in IsoDates THEN {"2025", "03", "05"} ELSE {Lower(w)}

\* the words of fewer than two characters
ShortStrings == {"", "x", "5"}

\* v in d for two different lower-case words
ProperSubstrings ==
    { <<"paris", "parisian">>, <<"2025", "2025-03-05">>,
      <<"03", "2025-03-05">>, <<"05", "2025-03-05">>,
      <<"25", "2025-03-05">>, <<"25", "2025">>,
      <<"5", "2025-03-05">>, <<"5", "2025">>, <<"5", "05">>, <<"5", "25">> }

IsSubstring(v, d) == v = d \/ <<v, d>> \in ProperSubstrings

\* val.split('-') of an ISO date: year, year[2:], day, str(int(day))
DateParts(d) ==
    [year |-> "2025", short_year |-> "25", day |-> "05", day_int |-> "5"]

\* DEFAULT_TOOL_SCHEMAS, two of its tools; every pattern of these two is
\* the date pattern
tool_schemas ==
    [flight_search |->
        [required_params |-> <<"destination">>,
         optional_params |-> {"date", "origin", "passengers", "class"},
         param_patterns |-> {"date"}],
     hotel_search |->
        [required_params |-> <<"location", "check_in">>,
         optional_params |-> {"check_out", "guests", "rooms"},
         param_patterns |-> {"check_in", "check_out"}]]

\* ToolCall.result: None, or a dict with its leaf values
NoneResult == [kind |-> "none", values |-> {}]

Param(n, v) == [name |-> n, value |-> v]

\* tool calls: parameters in insertion order
ToolCallPool ==
    { [tool_name |-> "flight_search",
       parameters |-> <<Param("destination", "Paris")>>,
       result |-> [kind |-> "ok", values |-> {"rome"}]],
      [tool_name |-> "flight_search",
       parameters |-> <<Param("destination", "rome"),
                        Param("date", "2025-03-05")>>,
       result |-> NoneResult],
      [tool_name |-> "flight_search",
       parameters |-> <<Param("date", "x")>>,
       result |-> [kind |-> "error", values |-> {"not found"}]],
      [tool_name |-> "hotel_search", parameters |-> <<>>,
       result |-> NoneResult],
      [tool_name |-> "teleport",
       parameters |-> <<Param("target", "Paris")>>,
       result |-> NoneResult],
      [tool_name |-> "flight_search",
       parameters |-> <<Param("destination", "Paris"), Param("bogus", "x")>>,
       result |-> NoneResult] }

FirstTwoCalls ==
    << CHOOSE tc \in ToolCallPool : tc.result.kind = "ok",
       CHOOSE tc \in ToolCallPool : Len(tc.parameters) = 2
                                    /\ tc.parameters[2].name = "date" >>

\* turns before their turn_id is assigned
TurnPool ==
    { [role |-> "user", content |-> c, tool_calls |-> <<>>] :
        c \in {<<>>, <<"Paris">>, <<"Parisian">>, <<"5", "2025">>,
               <<"rome">>} }
    \cup { [role |-> "user", content |-> <<>>, tool_calls |-> <<tc>>] :
             tc \in {t \in ToolCallPool : t.tool_name = "hotel_search"} }
    \cup { [role |-> "assistant", content |-> c, tool_calls |-> tcs] :
             c \in {<<>>, <<"Paris">>},
             tcs \in {<<>>, FirstTwoCalls}
                     \cup {<<tc>> : tc \in ToolCallPool} }

\* a Conversation whose turns carry the turn_id ingestion assigns: the index
MakeConversation(ts) ==
    [conversation_id |-> "c1",
     turns |-> [i \in 1..Len(ts) |->
                  [turn_id |-> i - 1, role |-> ts[i].role,
                   content |-> ts[i].content,
                   tool_calls |-> ts[i].tool_calls]]]

ConversationPool == {MakeConversation(ts) : ts \in SeqsUpTo(TurnPool, MaxTurns)}

HasParam(params, n) == \E i \in 1..Len(params) : params[i].name = n

\* a validation that reports only the first missing required parameter
_validate_tool_call_first_missing(tool_call, turn_id, strict) ==
    IF tool_call.tool_name \notin DOMAIN tool_schemas
    THEN IF strict
         THEN <<[issue_type |-> "tool_hallucination", severity |-> "high",
                 description |-> "unknown tool", turn_id |-> turn_id,
                 details |-> [tool |-> tool_call.tool_name, param |-> ""]]>>
         ELSE <<>>
    ELSE LET schema == tool_schemas[tool_call.tool_name]
             params == tool_call.parameters
             absent == SelectSeq(schema.required_params,
                                 LAMBDA p : ~HasParam(params, p))
         IN IF absent = <<>> THEN <<>>
            ELSE <<[issue_type |-> "missing_param", severity |-> "high",
                    description |-> "missing required parameter",
                    turn_id |-> turn_id,
                    details |-> [tool |-> tool_call.tool_name,
                                 param |-> absent[1]]]>>

\* ToolCallEvaluator._validate_tool_call: an unknown tool is reported in
\* strict mode only and nothing else is checked for it; then one
\* missing_param issue per absent required parameter, one invalid_param
\* issue per unknown parameter in strict mode, one invalid_param issue per
\* patterned parameter whose value does not match
_validate_tool_call(tool_call, turn_id, strict) ==
    IF tool_call.tool_name \notin DOMAIN tool_schemas
    THEN IF strict
         THEN <<[issue_type |-> "tool_hallucination", severity |-> "high",
                 description |-> "unknown tool", turn_id |-> turn_id,
                 details |-> [tool |-> tool_call.tool_name, param |-> ""]]>>
         ELSE <<>>
    ELSE LET schema == tool_schemas[tool_call.tool_name]
             params == tool_call.parameters
             known == {schema.required_params[i] :
                          i \in 1..Len(schema.required_params)}
                      \cup schema.optional_params
             absent == SelectSeq(schema.required_params,
                                 LAMBDA p : ~HasParam(params, p))
             unknown == SelectSeq(params,
                                  LAMBDA p : p.name \notin known /\ strict)
             badly == SelectSeq(params,
                                LAMBDA p : /\ p.name \in schema.param_patterns
                                           /\ p.value \notin IsoDates)
         IN [i \in 1..Len(absent) |->
               [issue_type |-> "missing_param", severity |-> "high",
                description |-> "missing required parameter",
                turn_id |-> turn_id,
                details |-> [tool |-> tool_call.tool_name,
                             param |-> absent[i]]]]
            \o [i \in 1..Len(unknown) |->
                 [issue_type |-> "invalid_param", severity |-> "medium",
                  description |-> "unknown parameter", turn_id |-> turn_id,
                  details |-> [tool |-> tool_call.tool_name,
                               param |-> unknown[i].name]]]
            \o [i \in 1..Len(badly) |->
                 [issue_type |-> "invalid_param", severity |-> "high",
                  description |-> "invalid format", turn_id |-> turn_id,
                  details |-> [tool |-> tool_call.tool_name,
                               param |-> badly[i].name]]]

\* the issues _evaluate collects for one tool call: those of the
\* validation, then execution_failed when the result dict has an error
CallIssues(tool_call, turn_id, strict) ==
    _validate_tool_call(tool_call, turn_id, strict)
    \o IF tool_call.result.kind = "error"
       THEN <<[issue_type |-> "execution_failed", severity |-> "high",
               description |-> "execution failed", turn_id |-> turn_id,
               details |-> [tool |-> tool_call.tool_name, param |-> ""]]>>
       ELSE <<>>

\* the tool calls of the assistant turns, each with its turn, in order
AssistantCalls(conv) ==
    ConcatAll([i \in 1..Len(conv.turns) |->
        IF conv.turns[i].role = "assistant"
        THEN [j \in 1..Len(conv.turns[i].tool_calls) |->
                [turn |-> i, call |-> j]]
        ELSE <<>>])

CountOf(issues, types) ==
    Cardinality({i \in 1..Len(issues) : issues[i].issue_type \in types})

\* max(0.0, 1.0 - issues / total), in ten-thousandths
ScoreOf(n, total) ==
    [num |-> 10000 * (IF n > total THEN 0 ELSE total - n), den |-> total]

\* ToolCallEvaluator._evaluate
ToolCallEvaluator_evaluate(conv, strict) ==
    LET calls == AssistantCalls(conv)
        issues == ConcatAll([k \in 1..Len(calls) |->
                     CallIssues(
                        conv.turns[calls[k].turn].tool_calls[calls[k].call],
                        conv.turns[calls[k].turn].turn_id, strict)])
        total == Len(calls)
    IN IF total = 0
       THEN [evaluator_name |-> "tool_call",
             scores |-> <<Rat(10000), Rat(10000), Rat(10000), Rat(10000)>>,
             issues |-> <<>>, confidence |-> 10000]
       ELSE [evaluator_name |-> "tool_call",
             scores |-> << ScoreOf(CountOf(issues, {"invalid_tool"}), total),
                           ScoreOf(CountOf(issues, {"invalid_param",
                                                    "missing_param"}), total),
                           ScoreOf(CountOf(issues, {"tool_hallucination"}),
                                   total),
                           ScoreOf(CountOf(issues, {"execution_failed"}),
                                   total) >>,
             issues |-> issues, confidence |-> 9500]

\* the words seen_data holds when call j of turn k is checked: the tokens of
\* the contents of the turns 1..upto, and the leaf values of the results of
\* the assistant tool calls that came before this call
SeenWords(conv, upto, k, j) ==
    UNION { UNION { Tokens(conv.turns[i].content[n]) :
                      n \in 1..Len(conv.turns[i].content) } : i \in 1..upto }
    \cup UNION { UNION { {Lower(v) :
                            v \in conv.turns[i].tool_calls[c].result.values} :
                         c \in {c \in 1..Len(conv.turns[i].tool_calls) :
                                   i < k \/ c < j} } :
                 i \in {i \in 1..k : conv.turns[i].role = "assistant"} }

\* the whole lower-cased contents seen_data holds
SeenTexts(conv, upto) == {LowerAll(conv.turns[i].content) : i \in 1..upto}

\* val in seen_data
InSeen(val, words, texts) == val \in words \/ <<val>> \in texts

\* the grounding test of one value: seen as it is, or inside a seen string,
\* or an ISO date whose year and day were seen
IsGrounded(val, words, texts) ==
    \/ InSeen(val, words, texts)
    \/ \E d \in words : IsSubstring(val, d)
    \/ \E t \in texts : \E n \in 1..Len(t) : IsSubstring(val, t[n])
    \/ /\ val \in IsoDates
       /\ \/ InSeen(DateParts(val).year, words, texts)
          \/ InSeen(DateParts(val).short_year, words, texts)
       /\ \/ InSeen(DateParts(val).day, words, texts)
          \/ InSeen(DateParts(val).day_int, words, texts)

\* _extract_values of the parameters, without the values _evaluate skips
CheckedValues(tool_call) ==
    {Lower(tool_call.parameters[i].value) :
        i \in 1..Len(tool_call.parameters)} \ ShortStrings

\* the values of call j of turn k found not grounded when seen_data holds
\* the contents of the turns 1..upto
NonGrounded(conv, upto, k, j) ==
    {v \in CheckedValues(conv.turns[k].tool_calls[j]) :
        ~IsGrounded(v, SeenWords(conv, upto, k, j), SeenTexts(conv, upto))}

\* ToolCausalityEvaluator._evaluate: each turn's content enters seen_data
\* before that turn's tool calls are checked; one tool_hallucination issue
\* per assistant tool call that has a non-grounded value
ToolCausalityEvaluator_evaluate(conv) ==
    LET calls == AssistantCalls(conv)
        bad(k) == NonGrounded(conv, calls[k].turn, calls[k].turn,
                              calls[k].call)
        flagged == SelectSeq([k \in 1..Len(calls) |-> k],
                             LAMBDA k : bad(k) # {})
        total == SumSeq([k \in 1..Len(calls) |->
                    Cardinality(CheckedValues(
                        conv.turns[calls[k].turn].tool_calls[calls[k].call]))])
        hallucinated == SumSeq([k \in 1..Len(calls) |-> Cardinality(bad(k))])
    IN [evaluator_name |-> "tool_causality",
        scores |-> << IF total > 0 THEN ScoreOf(hallucinated, total)
                      ELSE Rat(10000) >>,
        issues |-> [n \in 1..Len(flagged) |->
                      [issue_type |-> "tool_hallucination",
                       severity |-> "high",
                       description |-> "non-grounded parameter values",
                       turn_id |-> conv.turns[calls[flagged[n]].turn].turn_id,
                       details |->
                         [tool |-> conv.turns[calls[flagged[n]].turn]
                                     .tool_calls[calls[flagged[n]].call]
                                     .tool_name,
                          hallucinated_params |-> bad(flagged[n])]]],
        confidence |-> 9000]

\* what the judge's model call and the parse of its reply give: scores as
\* the reply states them (any float passes the validation), or a failure
JudgeReplies ==
    { [kind |-> "reply", scores |-> <<Rat(8000), Rat(9000), Rat(7500)>>],
      [kind |-> "reply", scores |-> <<Rat(15000), Rat(10000), Rat(10000)>>],
      [kind |-> "reply", scores |-> <<Rat(0 - 2000), Rat(5000), Rat(5000)>>],
      [kind |-> "error", scores |-> <<>>] }

\* LLMJudgeEvaluator._evaluate: the mock result, the error result, or
\* _process_response, which takes the scores of the reply as they are
LLMJudgeEvaluator_evaluate(is_mock, reply) ==
    IF is_mock
    THEN [evaluator_name |-> "llm_judge",
          scores |-> <<Rat(8000), Rat(8500), Rat(7500)>>,
          issues |-> <<>>, confidence |-> 0]
    ELSE IF reply.kind = "error"
    THEN [evaluator_name |-> "llm_judge", scores |-> <<>>,
          issues |-> <<>>, confidence |-> 0]
    ELSE [evaluator_name |-> "llm_judge", scores |-> reply.scores,
          issues |-> <<>>, confidence |-> 8500]

\* evaluate_conversation of a service whose only enabled evaluator returned
\* er from its _evaluate
SingleStrategyResult(cid, er) ==
    LET r == Evaluator_evaluate(er.evaluator_name,
                 [kind |-> "ok", scores |-> er.scores, issues |-> er.issues,
                  confidence |-> er.confidence])
        evals == <<[evaluator_name |-> r.evaluator_name, scores |-> r.scores,
                    issues |-> r.issues, confidence |-> r.confidence,
                    metadata |-> r.metadata]>>
    IN [conversation_id |-> cid,
        evaluations |-> evals,
        aggregate_score |-> MeanOrZero(r.scores),
        issues |-> aggregate_issues(evals),
        status |-> "completed"]

EvaluatorsInit ==
    /\ conversation \in ConversationPool
    /\ strict_mode \in BOOLEAN
    /\ registry = {"tool_call", "tool_causality", "llm_judge"}
    /\ conversations = <<>>
    /\ evaluations = <<>>
    /\ eval_order = <<>>
    /\ result = NoResult
    /\ last_outcomes = <<>>
    /\ EngineReady
    /\ HeapIdle
    /\ ClusterIdle
    /\ RegIdle
    /\ SvcIdle

\* the conversation evaluated by a service with one enabled evaluator: the
\* result is returned and saved
Evaluated(er) ==
    LET res == SingleStrategyResult(conversation.conversation_id, er)
    IN /\ result' = res
       /\ evaluations' = save_evaluation(evaluations, res)
       /\ eval_order' = Stamp(eval_order, res.conversation_id)
       /\ last_op' = [op |-> "evaluate_conversation",
                      evaluator |-> er.evaluator_name, error |-> FALSE]
       /\ UNCHANGED <<registry, conversations, last_outcomes, engineVars,
                      inputVars, heapVars, clusterVars, regVars,
                      proposalVars, ops>>

ToolCallEvaluate ==
    Evaluated(ToolCallEvaluator_evaluate(conversation, strict_mode))

ToolCausalityEvaluate ==
    Evaluated(ToolCausalityEvaluator_evaluate(conversation))

LLMJudgeEvaluate ==
    \E is_mock \in BOOLEAN, reply \in JudgeReplies :
        Evaluated(LLMJudgeEvaluator_evaluate(is_mock, reply))

EvaluatorsNext ==
    \/ ToolCallEvaluate
    \/ ToolCausalityEvaluate
    \/ LLMJudgeEvaluate

SpecEvaluators == EvaluatorsInit /\ [][EvaluatorsNext]_vars

\* ------------------------------------------------------------------------
\* Properties of the evaluators
\* ------------------------------------------------------------------------
CallAt(k) ==
    conversation.turns[AssistantCalls(conversation)[k].turn]
        .tool_calls[AssistantCalls(conversation)[k].call]

TurnIdAt(k) ==
    conversation.turns[AssistantCalls(conversation)[k].turn].turn_id

\* the assistant calls on turn t to the known tool that lack its required
\* parameter p
CallsMissing(t, tool, p) ==
    {k \in 1..Len(AssistantCalls(conversation)) :
        /\ TurnIdAt(k) = t
        /\ CallAt(k).tool_name = tool
        /\ ~HasParam(CallAt(k).parameters, p)}

MissingParamIssues(t, tool, p) ==
    {i \in 1..Len(result.issues) :
        /\ result.issues[i].issue_type = "missing_param"
        /\ result.issues[i].severity = "high"
        /\ result.issues[i].turn_id = t
        /\ result.issues[i].details.tool = tool
        /\ result.issues[i].details.param = p}

ToolCallRan ==
    /\ last_op.op = "evaluate_conversation"
    /\ last_op.evaluator = "tool_call"

\* C22: for every assistant-turn tool call to a tool known to the schema,
\* each required parameter that is absent produces one missing_param issue
\* with HIGH severity on that turn, and that issue is among the issues of
\* the resulting EvaluationResult; unknown tool names and unknown parameter
\* names produce issues only in strict mode.
C22_MissingParamReported ==
    ToolCallRan =>
        /\ \A t \in 0..(MaxTurns + 1), tool \in DOMAIN tool_schemas :
             \A n \in 1..Len(tool_schemas[tool].required_params) :
                LET p == tool_schemas[tool].required_params[n]
                IN /\ Cardinality(MissingParamIssues(t, tool, p)) =
                          Cardinality(CallsMissing(t, tool, p))
                   /\ CallsMissing(t, tool, p) # {} => Len(result.issues) >= 1
        /\ result.issues = result.evaluations[1].issues
        /\ ~strict_mode =>
             \A i \in 1..Len(result.issues) :
                /\ result.issues[i].issue_type # "tool_hallucination"
                /\ result.issues[i].description # "unknown parameter"
                /\ result.issues[i].details.tool \in DOMAIN tool_schemas

\* a hotel_search call without its two required parameters, next to an
\* unknown tool that lenient mode lets pass
C22_Witness ==
    /\ ToolCallRan
    /\ ~strict_mode
    /\ \E k \in 1..Len(AssistantCalls(conversation)) :
         CallAt(k).tool_name \notin DOMAIN tool_schemas
    /\ \E i, j \in 1..Len(result.issues) :
         /\ result.issues[i].issue_type = "missing_param"
         /\ result.issues[j].issue_type = "missing_param"
         /\ result.issues[i].turn_id = result.issues[j].turn_id
         /\ result.issues[i].details.param = "location"
         /\ result.issues[j].details.param = "check_in"

\* the assistant calls that have a value of two or more characters which
\* appeared neither in an earlier turn's content nor in the result of a
\* preceding tool call, in order
CallsToFlag ==
    SelectSeq([k \in 1..Len(AssistantCalls(conversation)) |-> k],
              LAMBDA k :
                 NonGrounded(conversation,
                             AssistantCalls(conversation)[k].turn - 1,
                             AssistantCalls(conversation)[k].turn,
                             AssistantCalls(conversation)[k].call) # {})

\* C25: a tool-call parameter value is grounded only if it (or a text
\* containing it) appeared in the content of a turn strictly earlier than
\* the calling turn or in the result of a preceding tool call (or it is an
\* ISO date whose year and day were seen earlier); every other value of
\* length >= 2 is listed in a tool_hallucination issue for that call, so a
\* value found only in the calling turn's own content is listed too.
C25_GroundedOnlyByEarlier ==
    (last_op.op = "evaluate_conversation"
       /\ last_op.evaluator = "tool_causality") =>
        /\ Len(result.issues) = Len(CallsToFlag)
        /\ \A n \in 1..Len(result.issues) :
             /\ result.issues[n].issue_type = "tool_hallucination"
             /\ result.issues[n].turn_id = TurnIdAt(CallsToFlag[n])
             /\ result.issues[n].details.hallucinated_params =
                    NonGrounded(conversation,
                        AssistantCalls(conversation)[CallsToFlag[n]].turn - 1,
                        AssistantCalls(conversation)[CallsToFlag[n]].turn,
                        AssistantCalls(conversation)[CallsToFlag[n]].call)

InUnit(x) == x.num >= 0 /\ x.num <= 10000 * x.den

\* C28: every sub-score of every EvaluatorResult stored in an
\* EvaluationResult lies in [0,1], every confidence lies in [0,1], and so
\* does every aggregate_score.
C28_ScoresInUnitInterval ==
    \A c \in DOMAIN evaluations :
        /\ InUnit(evaluations[c].aggregate_score)
        /\ \A e \in 1..Len(evaluations[c].evaluations) :
             /\ evaluations[c].evaluations[e].confidence \in 0..10000
             /\ \A s \in 1..Len(evaluations[c].evaluations[e].scores) :
                  InUnit(evaluations[c].evaluations[e].scores[s])

\* ------------------------------------------------------------------------
\* Conversation objects and their metadata maps
\* (src/ingestion/service.py, src/analysis/regression.py,
\* src/db/repository.py).  A map is known by its address in heap; a
\* Conversation holds the address of its metadata map.
\* ------------------------------------------------------------------------
\* the payload dicts a caller hands to ingestion: with a conversation_id or
\* without one ("": an id is generated), with a "metadata" dict of its own
\* (its address) or without the key (the empty set)
PayloadPool ==
    { [conversation_id |-> "c1", metadata |-> {1}],
      [conversation_id |-> "", metadata |-> {2}],
      [conversation_id |-> "c2", metadata |-> {}] }

\* the ids uuid4 hands out, in order
GeneratedIds == <<"u1", "u2", "u3", "u4", "u5", "u6">>

\* the address of a dict created now
FreshAddress(h) == Cardinality(DOMAIN h) + 1

Allocate(h, keys) ==
    [a \in DOMAIN h \cup {FreshAddress(h)} |->
        IF a \in DOMAIN h THEN h[a] ELSE keys]

\* the object the repository holds for an id: the one saved last
StoredObject(cid) ==
    {i \in 1..Len(conv_objects) :
        /\ conv_objects[i].conversation_id = cid
        /\ conv_objects[i].stored}

\* the caller's payload dicts exist, with the metadata they carry
IngestInit ==
    /\ heap = <<{"agent_version"}, {}>>
    /\ conv_objects = <<>>
    /\ EngineReady
    /\ InputIdle
    /\ ClusterIdle
    /\ EvalIdle
    /\ RegIdle
    /\ SvcIdle

\* ingest_single: _validate_and_convert builds the Conversation with
\* metadata = data.get("metadata", {}), the payload's own dict when it has
\* one; save_conversation puts the object under its id
ingest_single(payload) ==
    LET generated == Cardinality({i \in 1..Len(conv_objects) :
                        \E g \in 1..Len(GeneratedIds) :
                           conv_objects[i].conversation_id = GeneratedIds[g]})
        cid == IF payload.conversation_id # "" THEN payload.conversation_id
               ELSE GeneratedIds[generated + 1]
        address == IF payload.metadata # {}
                   THEN CHOOSE a \in payload.metadata : TRUE
                   ELSE FreshAddress(heap)
    IN /\ Tick
       /\ heap' = IF payload.metadata # {} THEN heap ELSE Allocate(heap, {})
       /\ conv_objects' =
             Append([i \in 1..Len(conv_objects) |->
                       IF conv_objects[i].conversation_id = cid
                       THEN [conv_objects[i] EXCEPT !.stored = FALSE]
                       ELSE conv_objects[i]],
                    [conversation_id |-> cid, metadata |-> address,
                     stored |-> TRUE, shadow |-> FALSE])
       /\ conversations' = IF Stored(cid) THEN conversations
                           ELSE Append(conversations, cid)
       /\ last_op' = [op |-> "ingest_single", conversation_id |-> cid,
                      error |-> FALSE]
       /\ UNCHANGED <<registry, evaluations, eval_order, result,
                      last_outcomes, engineVars, inputVars, clusterVars,
                      regVars, proposalVars>>

\* flag_for_review: metadata["needs_review"] = True on the stored object;
\* an unknown id changes nothing
flag_for_review(cid) ==
    /\ Tick
    /\ heap' = [a \in DOMAIN heap |->
                  IF \E i \in StoredObject(cid) : conv_objects[i].metadata = a
                  THEN heap[a] \cup {"needs_review"}
                  ELSE heap[a]]
    /\ last_op' = [op |-> "flag_for_review", conversation_id |-> cid,
                   error |-> FALSE]
    /\ UNCHANGED <<conv_objects, evalVars, engineVars, inputVars,
                   clusterVars, regVars, proposalVars>>

\* _simulate_shadow_conversation of a stored conversation: a new
\* Conversation "shadow_<id>" (not saved) whose metadata is a new dict built
\* from the original's entries
_simulate_shadow_conversation(cid, ptype) ==
    /\ StoredObject(cid) # {}
    /\ Tick
    /\ LET original == conv_objects[CHOOSE i \in StoredObject(cid) : TRUE]
           keys == heap[original.metadata]
                   \cup {"is_shadow", "prompt_version"}
                   \cup (IF ptype = "tool"
                         THEN {"tool_schema_fixed",
                               "simulated_improvement_factor"}
                         ELSE {})
       IN /\ heap' = Allocate(heap, keys)
          /\ conv_objects' =
                Append(conv_objects,
                       [conversation_id |-> cid,
                        metadata |-> FreshAddress(heap),
                        stored |-> FALSE, shadow |-> TRUE])
    /\ last_op' = [op |-> "_simulate_shadow_conversation",
                   conversation_id |-> cid, error |-> FALSE]
    /\ UNCHANGED <<evalVars, engineVars, inputVars, clusterVars, regVars,
                   proposalVars>>

IngestNext ==
    \/ \E payload \in PayloadPool : ingest_single(payload)
    \/ \E cid \in ConvIds \cup {GeneratedIds[1]} : flag_for_review(cid)
    \/ \E cid \in ConvIds \cup {GeneratedIds[1]}, ptype \in {"prompt", "tool"} :
         _simulate_shadow_conversation(cid, ptype)

SpecIngest == IngestInit /\ [][IngestNext]_vars

\* C26: no two Conversation objects ever share one metadata map instance:
\* every conversation created by ingestion, the same payload ingested more
\* than once included, and every shadow conversation owns its own map, so
\* flagging one conversation for review never changes another's metadata.
C26_NoSharedMetadata ==
    \A i, j \in 1..Len(conv_objects) :
        i # j => conv_objects[i].metadata # conv_objects[j].metadata

\* ------------------------------------------------------------------------
\* Staged batch evaluation (src/pipeline/batch_processor.py)
\* ------------------------------------------------------------------------
\* BatchPipelineProcessor.default_stages
default_stages ==
    << [name |-> "heuristic_stage",
        evaluators |-> <<"heuristic", "tool_call", "tool_causality">>,
        filter_criteria |-> "none"],
       [name |-> "llm_stage", evaluators |-> <<"llm_judge">>,
        filter_criteria |-> "has_issues"] >>

\* _filter_conversations_for_stage: every id, or the ids whose evaluation on
\* record has an issue
_filter_conversations_for_stage(ids, filter_criteria, evs) ==
    IF filter_criteria = "has_issues"
    THEN SelectSeq(ids, LAMBDA c : c \in DOMAIN evs /\ evs[c].issues # <<>>)
    ELSE ids

\* one stage: a fresh EvaluationService with the stage's evaluators runs
\* _evaluate_conversations_with_progress on the target ids; what it returns
StageResults(ids, stage, evs, convs, reg, outcomes) ==
    LET strategies == _get_active_strategies(reg, stage.evaluators)
        target_ids == _filter_conversations_for_stage(
                          ids, stage.filter_criteria, evs)
        done == SkippingMissing(target_ids, convs)
    IN [i \in 1..Len(done) |->
          evaluate_conversation(done[i], strategies,
              [s \in 1..Len(strategies) |-> outcomes[strategies[s]]])]

\* the results a stage's service saved: all of them when it had a strategy
StageSaved(results, stage, reg) ==
    IF _get_active_strategies(reg, stage.evaluators) = <<>> THEN <<>>
    ELSE results

StagedInit ==
    /\ registry \in SUBSET {"tool_call", "llm_judge"}
    /\ conversations = <<>>
    /\ evaluations = <<>>
    /\ eval_order = <<>>
    /\ result = NoResult
    /\ last_outcomes = <<>>
    /\ ClusterIdle
    /\ RegIdle
    /\ SvcIdle
    /\ AuxIdle

\* _run_staged_evaluation over the default stages: the second stage filters
\* on the evaluations the first one left in the repository and saves its
\* own results under the same conversation ids
_run_staged_evaluation(ids) ==
    /\ Tick
    /\ \E outcomes \in [{"tool_call", "llm_judge"} -> EvalOutcomes] :
         LET first == StageResults(ids, default_stages[1], evaluations,
                                   conversations, registry, outcomes)
             after_first == SaveAll(evaluations,
                                StageSaved(first, default_stages[1],
                                           registry))
             second == StageResults(ids, default_stages[2], after_first,
                                    conversations, registry, outcomes)
             saved == StageSaved(first, default_stages[1], registry)
                      \o StageSaved(second, default_stages[2], registry)
         IN /\ evaluations' = SaveAll(evaluations, saved)
            /\ eval_order' = StampAll(eval_order, saved)
            /\ last_op' = [op |-> "_run_staged_evaluation", ids |-> ids,
                           error |-> FALSE,
                           all_evaluations |-> first \o second]
    /\ result' = NoResult
    /\ last_outcomes' = <<>>
    /\ UNCHANGED <<registry, conversations, clusterVars, regVars,
                   proposalVars, auxVars>>

StagedNext ==
    \/ \E cid \in ConvIds : Ingest(cid)
    \/ \E ids \in SeqsUpTo(ConvIds, MaxBatch) : _run_staged_evaluation(ids)

SpecStaged == StagedInit /\ [][StagedNext]_vars

\* C30: in staged batch evaluation, the evaluation kept on record for a
\* conversation after the last stage contains the evaluator results and
\* the issues of every stage the conversation went through: a later stage
\* never discards the issues an earlier stage found.
C30_StagesAccumulate ==
    last_op.op = "_run_staged_evaluation" =>
        \A n \in 1..Len(last_op.all_evaluations) :
            LET r == last_op.all_evaluations[n]
            IN r.evaluations # <<>> =>
                 /\ HasEvaluation(r.conversation_id)
                 /\ \A e \in 1..Len(r.evaluations) :
                      \E k \in 1..Len(evaluations[r.conversation_id]
                                         .evaluations) :
                         evaluations[r.conversation_id].evaluations[k] =
                             r.evaluations[e]
                 /\ \A i \in 1..Len(r.issues) :
                      \E k \in 1..Len(evaluations[r.conversation_id].issues) :
                         evaluations[r.conversation_id].issues[k] =
                             r.issues[i]

====
